---- MODULE Spec2Model ----
(***************************************************************************)
(* Container sharder (swift/container/sharder.py): one sharder daemon on   *)
(* one node, the container DBs it owns, the handoff DBs its broker factory *)
(* creates, the green pool of replication / cleanup tasks, and the passes  *)
(* of _one_shard_pass step by step.                                        *)
(*                                                                         *)
(* Object names are finite sequences over a small alphabet; "" is <<>>.    *)
(* swift.common.shardtrie (ShardTrie, CountingTrie), ContainerBroker, the  *)
(* replicator and the request helpers are not part of the source tree at   *)
(* hand; they are modelled from the design document.                       *)
(***************************************************************************)
EXTENDS Integers, Sequences, FiniteSets, TLC

\* ------------------------------------------------------------------ bounds
MaxLen == 3
MaxObjs == 4
MaxPasses == 2
MaxFills == 3
MaxAdds == 4

\* program constants (scaled down)
SHARD_GROUP_COUNT == 2
CONTAINER_LISTING_LIMIT == 3

Alphabet == {1, 2}

RECORD_TYPE_OBJECT == "OBJECT"
RECORD_TYPE_TRIE_NODE == "TRIE_NODE"
DISTRIBUTED_BRANCH == "DISTRIBUTED_BRANCH"
DATA == "DATA"
INTERIOR == "INTERIOR"

\* ------------------------------------------------------------------ names
Strings(n) == UNION {[1..m -> Alphabet] : m \in 0..n}
\* Object names: one spine of nested prefixes (1, 11, 111, ...), which gives
\* every level of the trie a subtree that can be split again, and the
\* siblings 2 and 12, which stay behind in the root and in the first shard.
Names == {k \in Strings(MaxLen) \ {<<>>} :
            /\ \A i \in 1..(Len(k) - 1) : k[i] = 1
            /\ k[Len(k)] = 2 => Len(k) <= 2}
Prefixes == {<<>>} \cup {k \in Names : Len(k) < MaxLen}

startswith(k, p) == Len(p) <= Len(k) /\ SubSeq(k, 1, Len(p)) = p

\* Python's string order: a proper prefix sorts first, else the first
\* differing character decides.
StrLess(a, b) ==
    \/ Len(a) < Len(b) /\ startswith(b, a)
    \/ \E i \in 1..Len(a) :
          /\ i <= Len(b)
          /\ SubSeq(a, 1, i - 1) = SubSeq(b, 1, i - 1)
          /\ a[i] < b[i]

MinName(S) == CHOOSE k \in S : \A j \in S : j = k \/ StrLess(k, j)
MaxName(S) == CHOOSE k \in S : \A j \in S : j = k \/ StrLess(j, k)

RECURSIVE SortNames(_)
SortNames(S) ==
    IF S = {} THEN <<>>
    ELSE LET m == MinName(S) IN <<m>> \o SortNames(S \ {m})

Range(s) == {s[i] : i \in 1..Len(s)}

Take(s, n) == SubSeq(s, 1, IF Len(s) < n THEN Len(s) ELSE n)


\* --------------------------------------------------- container DB (broker)
\* A row of the object table, as merge_items consumes it.
Record(name, created_at, size, content_type, etag, deleted, spi, rtype) ==
    [name |-> name, created_at |-> created_at, size |-> size,
     content_type |-> content_type, etag |-> etag, deleted |-> deleted,
     storage_policy_index |-> spi, record_type |-> rtype]

\* merge_items: upsert keyed by (name, record_type); the row with the newer
\* created_at wins, an equal or older one is ignored.
RECURSIVE merge_items(_, _)
merge_items(rows, items) ==
    IF items = <<>> THEN rows
    ELSE LET it == Head(items)
             old == {r \in rows : r.name = it.name
                                  /\ r.record_type = it.record_type}
         IN  IF old = {} THEN merge_items(rows \cup {it}, Tail(items))
             ELSE IF \A r \in old : r.created_at < it.created_at
                  THEN merge_items((rows \ old) \cup {it}, Tail(items))
                  ELSE merge_items(rows, Tail(items))

LiveObjects(rows) ==
    {r \in rows : r.record_type = RECORD_TYPE_OBJECT /\ r.deleted = 0}
LiveNames(rows) == {r.name : r \in LiveObjects(rows)}
Tombstones(rows) ==
    {r \in rows : r.record_type = RECORD_TYPE_OBJECT /\ r.deleted = 1}
ShardNodeRows(rows) ==
    {r \in rows : r.record_type = RECORD_TYPE_TRIE_NODE /\ r.deleted = 0}
ShardNodeNames(rows) == {r.name : r \in ShardNodeRows(rows)}

RowOf(rows, name, rtype) ==
    CHOOSE r \in rows : r.name = name /\ r.record_type = rtype

\* Raw rows as the listing calls hand them out: a 5-tuple for an object,
\* a 2-tuple for a trie node (told apart by length).
ObjectItem(r) == <<r.name, r.created_at, r.size, r.content_type, r.etag>>
NodeItem(r) == <<r.name, r.created_at>>

\* list_objects_iter(limit, marker, '', '', ''): live objects after marker,
\* name-sorted, at most limit of them.
list_objects_iter(rows, limit, marker) ==
    LET names == {n \in LiveNames(rows) : marker = <<>> \/ StrLess(marker, n)}
        sorted == Take(SortNames(names), limit)
    IN  [i \in 1..Len(sorted) |->
            ObjectItem(RowOf(rows, sorted[i], RECORD_TYPE_OBJECT))]

\* get_shard_nodes(): the live distributed-branch records, name-sorted.
get_shard_nodes(rows) ==
    LET sorted == SortNames(ShardNodeNames(rows))
    IN  [i \in 1..Len(sorted) |->
            NodeItem(RowOf(rows, sorted[i], RECORD_TYPE_TRIE_NODE))]

\* ------------------------------------------------------------- shard trie
\* A trie is its root key and its flagged nodes (DATA and DISTRIBUTED_BRANCH);
\* interior nodes are implied by the keys.
TrieNode(key, flag, timestamp, data) ==
    [key |-> key, flag |-> flag, timestamp |-> timestamp, data |-> data]
NoData == [size |-> 0, content_type |-> "", etag |-> ""]

ShardTrie(root_key, nodes) == [root_key |-> root_key, nodes |-> nodes]

DataNodes(trie) == {n \in trie.nodes : n.flag = DATA}
DistNodes(trie) == {n \in trie.nodes : n.flag = DISTRIBUTED_BRANCH}
data_node_count(trie) == Cardinality(DataNodes(trie))
is_empty(trie) == trie.nodes = {}

NodeAt(trie, key) == CHOOSE n \in trie.nodes : n.key = key

\* In-order traversal = name order (a prefix comes before its extensions).
NodesInOrder(nodes) ==
    LET sorted == SortNames({n.key : n \in nodes})
    IN  [i \in 1..Len(sorted) |-> CHOOSE n \in nodes : n.key = sorted[i]]
get_data_nodes(trie) == NodesInOrder(DataNodes(trie))
get_important_nodes(trie) == NodesInOrder(trie.nodes)
get_last_node(trie) == MaxName({n.key : n \in DataNodes(trie)})

\* trie[key]: the node at key; descending past a distributed branch raises
\* DistributedBranch(branch key).  The branch node itself is returned, not
\* raised: the pass reads trie[candidate].flag and, after the split,
\* trie[node.full_key()] (sharder.py lines 538-539 and 610).
Crossed(trie, key) ==
    {n.key : n \in {m \in DistNodes(trie) :
                        startswith(key, m.key) /\ m.key # key}}
lookup(trie, key) ==
    IF Crossed(trie, key) # {}
    THEN [kind |-> "DistributedBranch", key |-> MinName(Crossed(trie, key)),
          node |-> TrieNode(<<>>, INTERIOR, 0, NoData)]
    ELSE IF \E n \in trie.nodes : n.key = key
    THEN [kind |-> "node", key |-> key, node |-> NodeAt(trie, key)]
    ELSE IF \E n \in trie.nodes : startswith(n.key, key)
    THEN [kind |-> "node", key |-> key,
          node |-> TrieNode(key, INTERIOR, 0, NoData)]
    ELSE [kind |-> "NotFound", key |-> key,
          node |-> TrieNode(<<>>, INTERIOR, 0, NoData)]

\* A split that detaches the subtree and leaves nothing in its place.
SplitRest_detached(trie, prefix, ts) ==
    ShardTrie(trie.root_key, {n \in trie.nodes : ~startswith(n.key, prefix)})

\* split_trie(prefix): the subtree at prefix as a new trie; in self a single
\* DISTRIBUTED_BRANCH node (fresh timestamp) takes its place.
SplitOff(trie, prefix) ==
    ShardTrie(prefix, {n \in trie.nodes : startswith(n.key, prefix)})
SplitRest(trie, prefix, ts) ==
    ShardTrie(trie.root_key,
              {n \in trie.nodes : ~startswith(n.key, prefix)}
                \cup {TrieNode(prefix, DISTRIBUTED_BRANCH, ts, NoData)})

\* trim_trunk(): collapse the single-child interior chain at the root; the
\* new root key is the longest common prefix of the flagged nodes.
CommonPrefixes(keys) ==
    {p \in Strings(MaxLen) : \A k \in keys : startswith(k, p)}
trim_trunk(trie) ==
    IF is_empty(trie) THEN trie
    ELSE LET cps == {p \in CommonPrefixes({n.key : n \in trie.nodes}) :
                        startswith(p, trie.root_key)}
         IN  IF cps = {} THEN trie
             ELSE ShardTrie(CHOOSE p \in cps : \A q \in cps : Len(q) <= Len(p),
                            trie.nodes)

\* build_shard_trie(policy, marker, prefix): the trie of the live rows under
\* prefix after marker, at most CONTAINER_LISTING_LIMIT data nodes, together
\* with the rows it could not insert because they lie at or beyond a
\* distributed branch of this DB (a key holds one node).
build_shard_trie(rows, marker, prefix) ==
    LET after(n) == marker = <<>> \/ StrLess(marker, n)
        dist == {r \in ShardNodeRows(rows) :
                    startswith(r.name, prefix) /\ after(r.name)}
        beyond(n) == \E d \in dist : startswith(n, d.name)
        objs == {n \in LiveNames(rows) : startswith(n, prefix) /\ after(n)}
        page == Range(Take(SortNames({n \in objs : ~beyond(n)}),
                           CONTAINER_LISTING_LIMIT))
        nodes == {TrieNode(r.name, DISTRIBUTED_BRANCH, r.created_at, NoData)
                    : r \in dist}
                 \cup {TrieNode(n, DATA,
                                RowOf(rows, n, RECORD_TYPE_OBJECT).created_at,
                                [size |-> RowOf(rows, n, RECORD_TYPE_OBJECT).size,
                                 content_type |->
                                    RowOf(rows, n, RECORD_TYPE_OBJECT).content_type,
                                 etag |-> RowOf(rows, n, RECORD_TYPE_OBJECT).etag])
                        : n \in page}
    IN  <<ShardTrie(prefix, nodes), {n \in objs : beyond(n)}>>


\* ----------------------------------------------------------- counting trie
\* CountingTrie(prefix, group_count): every add is counted against the
\* subtree it falls in below the trie's prefix; a subtree whose size reaches
\* group_count is appended to candidates once (FIFO).  A data key strictly
\* under a registered distributed branch is misplaced under that branch,
\* whichever of the two adds came first.
CountingTrie(prefix, group_count) ==
    [prefix |-> prefix, group_count |-> group_count,
     count |-> [p \in Strings(MaxLen) |-> 0],
     dist |-> {}, items |-> <<>>,
     candidates |-> <<>>, misplaced |-> <<>>, log |-> <<>>]

Under(key, branch) == startswith(key, branch) /\ key # branch

\* A subtree that counts as a candidate again with every add past the
\* group count.
Saturated_beyond(count, group_count) == count >= group_count

\* "When an ancestor's subtree size first reaches group_count".
Saturated(count, group_count) == count = group_count

\* A branch that is registered without a look at the keys added before it.
LateItems_none(ct, key) == <<>>

\* The data items added before the branch key that lie strictly under it.
LateItems(ct, key) ==
    SelectSeq(ct.items,
              LAMBDA it : /\ Under(it[1], key)
                          /\ <<it[1], key, it[2]>> \notin Range(ct.misplaced))

\* add(key, distributed, data).  An entry (key, branch, data) is emitted for
\* a data key and a registered branch it lies strictly under, when the later
\* of the two adds is made, and once.
ct_add(ct, key, distributed, data) ==
    LET inside == startswith(key, ct.prefix) /\ Len(key) > Len(ct.prefix)
        sub == IF inside THEN SubSeq(key, 1, Len(ct.prefix) + 1) ELSE <<>>
        cnt == IF inside THEN [ct.count EXCEPT ![sub] = @ + 1] ELSE ct.count
        cands == IF inside /\ Saturated(cnt[sub], ct.group_count)
                 THEN Append(ct.candidates, sub) ELSE ct.candidates
        late == LateItems(ct, key)
        branches == SortNames({d \in ct.dist :
                                 /\ Under(key, d)
                                 /\ <<key, d, data>> \notin Range(ct.misplaced)})
    IN  IF distributed
        THEN [ct EXCEPT !.count = cnt, !.candidates = cands,
                        !.dist = @ \cup {key},
                        !.misplaced =
                            @ \o [i \in 1..Len(late) |->
                                    <<late[i][1], key, late[i][2]>>],
                        !.log = Append(@, <<key, TRUE>>)]
        ELSE [ct EXCEPT !.count = cnt, !.candidates = cands,
                        !.items = Append(@, <<key, data>>),
                        !.misplaced =
                            @ \o [i \in 1..Len(branches) |->
                                    <<key, branches[i], data>>],
                        !.log = Append(@, <<key, FALSE>>)]

\* ------------------------------------------------ ingestion of one DB
\* for dist_item in broker.get_shard_nodes(): counting_trie.add(..., True)
RECURSIVE AddShardNodes(_, _)
AddShardNodes(ct, ds) ==
    IF ds = <<>> THEN ct
    ELSE AddShardNodes(ct_add(ct, Head(ds)[1], TRUE, Head(ds)), Tail(ds))

\* An interleave loop that passes the distributed nodes by without adding
\* them.
RECURSIVE AdvanceDist_skip(_, _, _)
AdvanceDist_skip(ct, ds, name) ==
    IF ds # <<>> /\ (startswith(name, Head(ds)[1]) \/ StrLess(Head(ds)[1], name))
    THEN AdvanceDist_skip(ct, Tail(ds), name)
    ELSE <<ct, ds>>

\* while ditem and (item[0].startswith(ditem[0]) or item[0] > ditem[0])
RECURSIVE AdvanceDist(_, _, _)
AdvanceDist(ct, ds, name) ==
    IF ds # <<>> /\ (startswith(name, Head(ds)[1]) \/ StrLess(Head(ds)[1], name))
    THEN AdvanceDist(IF startswith(name, Head(ds)[1])
                     THEN ct_add(ct, Head(ds)[1], TRUE, Head(ds)) ELSE ct,
                     Tail(ds), name)
    ELSE <<ct, ds>>

\* for item in obj_iter: ... count += 1; marker = item[0]; add(item[0])
RECURSIVE IngestPage(_, _)
IngestPage(st, page) ==
    IF page = <<>> THEN st
    ELSE LET item == Head(page)
             adv == AdvanceDist(st.ct, st.ds, item[1])
         IN  IngestPage([st EXCEPT !.ct = ct_add(adv[1], item[1], FALSE, item),
                                   !.ds = adv[2],
                                   !.marker = item[1],
                                   !.count = @ + 1],
                        Tail(page))

\* while not done: ... if count < CONTAINER_LISTING_LIMIT: done = True
RECURSIVE IngestLoop(_, _)
IngestLoop(rows, st) ==
    LET page == list_objects_iter(rows, CONTAINER_LISTING_LIMIT, st.marker)
        st2 == IngestPage([st EXCEPT !.count = 0, !.listings = @ + 1], page)
    IN  IF st2.count < CONTAINER_LISTING_LIMIT THEN st2
        ELSE IngestLoop(rows, st2)

Ingest(rows, prefix, is_root) ==
    LET ct0 == CountingTrie(prefix, SHARD_GROUP_COUNT)
        ct1 == IF is_root THEN ct0
               ELSE AddShardNodes(ct0, get_shard_nodes(rows))
    IN  IngestLoop(rows, [ct |-> ct1, ds |-> get_shard_nodes(rows),
                          marker |-> <<>>, count |-> 0, listings |-> 0])

\* ------------------------------------------------ _generate_object_list
\* The input is a ShardTrie or a list of items; a list item is a raw row (a
\* tuple) or, when a caller hands over already generated records, a dict.
TrieInput(trie) == [kind |-> "trie", trie |-> trie, items |-> <<>>]
ListInput(items) == [kind |-> "list", trie |-> ShardTrie(<<>>, {}), items |-> items]
RowItem(v) == [t |-> "row", row |-> v]
DictItem(d) == [t |-> "dict", row |-> <<d>>]
RowItems(rowseq) == [i \in 1..Len(rowseq) |-> RowItem(rowseq[i])]
DictItems(dicts) == [i \in 1..Len(dicts) |-> DictItem(dicts[i])]

\* A generator that never marks a record deleted.
Deleted_never(delete) == 0
\* 1 if delete else 0
Deleted(delete) == IF delete THEN 1 ELSE 0
\* A generator that keeps every item's own timestamp.
Or_own(timestamp, x) == x
\* timestamp or x  (0 models None)
Or(timestamp, x) == IF timestamp # 0 THEN timestamp ELSE x

NodeRecord(node, policy_index, delete, timestamp) ==
    IF node.flag = DISTRIBUTED_BRANCH
    THEN Record(node.key, Or(timestamp, node.timestamp), 0, "", "",
                Deleted(delete), policy_index, RECORD_TYPE_TRIE_NODE)
    ELSE Record(node.key, Or(timestamp, node.timestamp), node.data.size,
                node.data.content_type, node.data.etag,
                Deleted(delete), policy_index, RECORD_TYPE_OBJECT)

\* One list item: "ok" with its record, "skip" (logged warning), or "raise"
\* (item[0] fails again inside the except clause, lines 292-295).
ItemOutcome(item, policy_index, delete, timestamp) ==
    LET v == item.row
        none == Record(<<>>, 0, 0, "", "", 0, 0, RECORD_TYPE_OBJECT)
    IN  IF item.t = "dict" \/ Len(v) = 0
        THEN [res |-> "raise", rec |-> none]
        ELSE IF timestamp = 0 /\ Len(v) < 2
        THEN [res |-> "skip", rec |-> none]
        ELSE IF Len(v) > 3
        THEN IF Len(v) < 5 THEN [res |-> "skip", rec |-> none]
             ELSE [res |-> "ok",
                   rec |-> Record(v[1], Or(timestamp, v[2]), v[3], v[4], v[5],
                                  Deleted(delete), policy_index,
                                  RECORD_TYPE_OBJECT)]
        ELSE [res |-> "ok",
              rec |-> Record(v[1], Or(timestamp, v[2]), 0, "", "",
                             Deleted(delete), 0, RECORD_TYPE_TRIE_NODE)]

RECURSIVE GenerateFromList(_, _, _, _, _)
GenerateFromList(items, policy_index, delete, timestamp, acc) ==
    IF items = <<>> THEN acc
    ELSE LET o == ItemOutcome(Head(items), policy_index, delete, timestamp)
         IN  IF o.res = "raise" THEN [acc EXCEPT !.raised = TRUE]
             ELSE GenerateFromList(
                    Tail(items), policy_index, delete, timestamp,
                    IF o.res = "ok"
                    THEN [acc EXCEPT !.objs = Append(@, o.rec)]
                    ELSE [acc EXCEPT !.warnings = @ + 1])

_generate_object_list(objs_or_trie, policy_index, delete, timestamp, filter_dist) ==
    IF objs_or_trie.kind = "trie"
    THEN LET item_iter == IF filter_dist
                          THEN get_data_nodes(objs_or_trie.trie)
                          ELSE get_important_nodes(objs_or_trie.trie)
         IN  [raised |-> FALSE, warnings |-> 0,
              objs |-> [i \in 1..Len(item_iter) |->
                          NodeRecord(item_iter[i], policy_index, delete, timestamp)]]
    ELSE GenerateFromList(objs_or_trie.items, policy_index, delete, timestamp,
                          [raised |-> FALSE, warnings |-> 0, objs |-> <<>>])


\* ---------------------------------------------------------- shard resolver
\* Accounts and containers are pairs so that a root and its shards compare:
\* <<name, 0>> is an account, <<name, 1>> its hidden shard account;
\* <<name, prefix>> is the container of the shard at prefix ("" = the root).
ROOT_ACCOUNT == <<"AUTH_test", 0>>
ROOT_CONTAINER == <<"c", <<>>>>

\* get_container_shard_path(account, container, prefix): derived from the
\* three values alone; the empty prefix is the root container itself.
get_container_shard_path(account, container, prefix) ==
    IF prefix = <<>> THEN <<account, container>>
    ELSE <<<<account[1], 1>>, <<container[1], prefix>>>>

AllPaths ==
    {get_container_shard_path(ROOT_ACCOUNT, ROOT_CONTAINER, p) : p \in Prefixes}

NoMeta == [sharding |-> <<>>, shard_account |-> <<>>,
           shard_container |-> <<>>, shard_prefix |-> <<>>]
NoDB == [exists |-> FALSE, metadata |-> NoMeta, rows |-> {},
         storage_policy_index |-> 0]
\* broker.initialize(storage_policy_index=policy_index)
EmptyDB(policy_index) == [NoDB EXCEPT !.exists = TRUE,
                                      !.storage_policy_index = policy_index]

\* _get_shard_trie: GET ?format=trie&trie_nodes=distributed on the cluster's
\* copy of the container; only a 2xx is acceptable.
_get_shard_trie(store, account, container) ==
    LET db == store[<<account, container>>]
    IN  IF ~db.exists THEN [ok |-> FALSE, trie |-> ShardTrie(<<>>, {})]
        ELSE [ok |-> TRUE,
              trie |-> ShardTrie(<<>>,
                         {TrieNode(r.name, DISTRIBUTED_BRANCH, r.created_at, NoData)
                            : r \in ShardNodeRows(db.rows)})]

\* The recursion that never moves on: the fragment it recurses into is the
\* trie it came from.
RECURSIVE _find_shard_container_prefix_same(_, _, _, _, _, _, _, _)
_find_shard_container_prefix_same(store, trie, key, account, container, trie_cache, fetched, fuel) ==
    LET r == lookup(trie, key)
    IN  IF r.kind # "DistributedBranch"
        THEN [res |-> "ok", prefix |-> trie.root_key,
              cache |-> trie_cache, fetched |-> fetched, hops |-> <<>>]
        ELSE IF fuel = 0
        THEN [res |-> "depth", prefix |-> <<>>,
              cache |-> trie_cache, fetched |-> fetched, hops |-> <<>>]
        ELSE [_find_shard_container_prefix_same(
                 store, trie, key, account, container,
                 (r.key :> trie) @@ trie_cache, Append(fetched, r.key), fuel - 1)
                 EXCEPT !.hops = <<r.key>> \o @]

\* _find_shard_container_prefix: res is "ok" with the owning prefix, "http"
\* when a fetch fails, "depth" when the recursion does not come to an end
\* (Python's recursion limit).  fetched lists the branch keys fetched, hops
\* the branch keys followed for this key, fetched or taken from the cache.
RECURSIVE _find_shard_container_prefix(_, _, _, _, _, _, _, _)
_find_shard_container_prefix(store, trie, key, account, container, trie_cache, fetched, fuel) ==
    LET r == lookup(trie, key)
    IN  IF r.kind # "DistributedBranch"
        THEN [res |-> "ok", prefix |-> trie.root_key,
              cache |-> trie_cache, fetched |-> fetched, hops |-> <<>>]
        ELSE IF fuel = 0
        THEN [res |-> "depth", prefix |-> <<>>,
              cache |-> trie_cache, fetched |-> fetched, hops |-> <<>>]
        ELSE IF r.key \in DOMAIN trie_cache
        THEN [_find_shard_container_prefix(store, trie_cache[r.key], key, account,
                                           container, trie_cache, fetched, fuel - 1)
                EXCEPT !.hops = <<r.key>> \o @]
        ELSE LET ac == get_container_shard_path(account, container, r.key)
                 got == _get_shard_trie(store, ac[1], ac[2])
                 new_trie == trim_trunk(IF is_empty(got.trie)
                                        THEN ShardTrie(r.key, {})
                                        ELSE got.trie)
             IN  IF ~got.ok
                 THEN [res |-> "http", prefix |-> <<>>,
                       cache |-> trie_cache, fetched |-> Append(fetched, r.key),
                       hops |-> <<r.key>>]
                 ELSE [_find_shard_container_prefix(
                         store, new_trie, key, account, container,
                         (r.key :> new_trie) @@ trie_cache,
                         Append(fetched, r.key), fuel - 1)
                         EXCEPT !.hops = <<r.key>> \o @]

\* for obj, dist_key, data in misplaced: ... shard_prefix_to_obj[prefix]
RECURSIVE RouteMisplaced(_, _, _, _, _, _)
RouteMisplaced(store, trie, misplaced, account, container, acc) ==
    IF misplaced = <<>> \/ acc.res # "ok" THEN acc
    ELSE LET m == Head(misplaced)
             f == _find_shard_container_prefix(store, trie, m[1], account,
                                               container, acc.cache, acc.fetched,
                                               MaxLen + 2)
             b == acc.buckets
         IN  RouteMisplaced(
                store, trie, Tail(misplaced), account, container,
                [res |-> f.res, cache |-> f.cache, fetched |-> f.fetched,
                 hops |-> Append(acc.hops, <<m[1], f.hops, f.prefix>>),
                 buckets |-> IF f.res # "ok" THEN b
                             ELSE IF f.prefix \in DOMAIN b
                             THEN [b EXCEPT ![f.prefix] = Append(@, m[3])]
                             ELSE (f.prefix :> <<m[3]>>) @@ b])

\* -------------------------------------------------- shard broker factory
NoMap == [none |-> FALSE, map |-> <<>>]
IsNone == [none |-> TRUE, map |-> <<>>]

\* A factory without the memo: every request looks the handoff device up.
_get_shard_broker_nomemo(sb, store, prefix, account, container, policy_index, avail) ==
    IF sb.none
    THEN [res |-> "TypeError", broker |-> <<account, container>>,
          sb |-> sb, store |-> store]
    ELSE IF ~avail
    THEN [res |-> "DeviceUnavailable", broker |-> <<account, container>>,
          sb |-> sb, store |-> store]
    ELSE LET path == <<account, container>>
         IN  [res |-> "ok", broker |-> path,
              sb |-> [sb EXCEPT !.map = (container :> <<path, path, "local">>) @@ @],
              store |-> IF store[path].exists THEN store
                        ELSE [store EXCEPT ![path] = EmptyDB(policy_index)]]

\* _get_shard_broker: memoized by container name; a broker is the path of
\* its handoff DB, registered with its partition and the local node's id.
_get_shard_broker(sb, store, prefix, account, container, policy_index, avail) ==
    IF sb.none
    THEN [res |-> "TypeError", broker |-> <<account, container>>,
          sb |-> sb, store |-> store]
    ELSE IF container \in DOMAIN sb.map
    THEN [res |-> "ok", broker |-> sb.map[container][2], sb |-> sb, store |-> store]
    ELSE IF ~avail
    THEN [res |-> "DeviceUnavailable", broker |-> <<account, container>>,
          sb |-> sb, store |-> store]
    ELSE LET path == <<account, container>>
         IN  [res |-> "ok", broker |-> path,
              sb |-> [sb EXCEPT !.map = (container :> <<path, path, "local">>) @@ @],
              store |-> IF store[path].exists THEN store
                        ELSE [store EXCEPT ![path] = EmptyDB(policy_index)]]

\* A fill that stamps the shard metadata every time.
NeedsStamp_always(db, prefix) == prefix # <<>>

\* lines 324-325: if not broker.metadata.get('X-Container-Sysmeta-Shard-Account')
\* and prefix
NeedsStamp(db, prefix) == db.metadata.shard_account = <<>> /\ prefix # <<>>

\* _get_and_fill_shard_broker: ret is "None" after DeviceUnavailable, "raise"
\* when an exception leaves the function, else "ok" with the registered
\* triple (part, broker, node_id).
_get_and_fill_shard_broker(sb, store, prefix, objs_or_trie, account, container, policy_index, delete, avail, ts) ==
    LET ac == get_container_shard_path(account, container, prefix)
        g == _get_shard_broker(sb, store, prefix, ac[1], ac[2], policy_index, avail)
        db == g.store[g.broker]
        stamped == IF NeedsStamp(db, prefix)
                   THEN [db EXCEPT !.metadata =
                            [@ EXCEPT !.shard_account = <<account, ts>>,
                                      !.shard_container = <<container, ts>>,
                                      !.shard_prefix = <<prefix, ts>>]]
                   ELSE db
        objects == _generate_object_list(objs_or_trie, policy_index, delete, 0, FALSE)
        none == <<ac, ac, "local">>
    IN  IF g.res = "DeviceUnavailable"
        THEN [ret |-> "None", triple |-> none, sb |-> sb, store |-> store,
              objects |-> <<>>]
        ELSE IF g.res # "ok"
        THEN [ret |-> "raise", triple |-> none, sb |-> sb, store |-> store,
              objects |-> <<>>]
        ELSE IF objects.raised
        THEN [ret |-> "raise", triple |-> none, sb |-> g.sb,
              store |-> [g.store EXCEPT ![g.broker] = stamped],
              objects |-> <<>>]
        ELSE [ret |-> "ok", triple |-> g.sb.map[ac[2]], sb |-> g.sb,
              store |-> [g.store EXCEPT ![g.broker] =
                            [stamped EXCEPT !.rows = merge_items(@, objects.objs)]],
              objects |-> objects.objs]

\* get_shard_root_path(broker): the root from the shard sysmeta, else the
\* broker's own account and container.
get_shard_root_path(path, db) ==
    << IF db.metadata.shard_account # <<>> THEN db.metadata.shard_account[1]
       ELSE path[1],
       IF db.metadata.shard_container # <<>> THEN db.metadata.shard_container[1]
       ELSE path[2] >>


\* ================================================================== state
VARIABLES
    primary,         \* the cluster's container DBs, by <<account, container>>
    handoff,         \* the handoff DBs the factory created on this node
    shard_brokers,   \* self.shard_brokers (None or a map)
    shard_cleanups,  \* self.shard_cleanups (None or a map)
    pool,            \* self.cpool: tasks spawned and not yet finished
    pc,              \* where the daemon's main task stands
    todo,            \* local DBs the pass has still to visit
    cur,             \* locals of _one_shard_pass for the DB in hand
    now,             \* the clock behind Timestamp(time.time())
    passes,          \* passes started so far
    errors,          \* logger.increment('errors')
    uploaded,        \* names of the objects clients have uploaded
    hist             \* what happened while the DB in hand was processed

vars == <<primary, handoff, shard_brokers, shard_cleanups, pool, pc, todo,
          cur, now, passes, errors, uploaded, hist>>

ROOT_PATH == <<ROOT_ACCOUNT, ROOT_CONTAINER>>

NoTriple == <<ROOT_PATH, ROOT_PATH, "local">>
NoCur == [path |-> ROOT_PATH, root_account |-> ROOT_ACCOUNT,
          root_container |-> ROOT_CONTAINER, prefix |-> <<>>, is_root |-> TRUE,
          misplaced |-> <<>>, candidates |-> <<>>, work |-> <<>>,
          buckets |-> <<>>,
          candidate |-> <<>>, trie |-> ShardTrie(<<>>, {}),
          counting_trie |-> <<>>, args |-> <<>>,
          split_trie |-> ShardTrie(<<>>, {}), marker |-> <<>>,
          new_broker |-> NoTriple, dist_node_item |-> <<>>]

NoHist == [calls |-> <<>>, replicated |-> {}, created |-> <<>>,
           fetched |-> <<>>, warnings |-> 0, pre |-> {}, pre_dbs |-> {},
           listed |-> <<>>, unavailable |-> FALSE, splits |-> 0, hops |-> <<>>,
           before |-> <<>>, listings |-> 0, gen |-> <<>>,
           phase |-> "none", exc |-> "none"]

\* One merge_items call, as the history remembers it.
Call(where, path, items) == [where |-> where, path |-> path, items |-> items]

Init ==
    /\ primary = [p \in AllPaths |->
                    IF p = ROOT_PATH THEN EmptyDB(0) ELSE NoDB]
    /\ handoff = [p \in AllPaths |-> NoDB]
    /\ shard_brokers = NoMap
    /\ shard_cleanups = NoMap
    /\ pool = {}
    /\ pc = "idle"
    /\ todo = {}
    /\ cur = NoCur
    /\ now = 1
    /\ passes = 0
    /\ errors = 0
    /\ uploaded = {}
    /\ hist = NoHist

\* The same start with one object already in the root, outside the spine of
\* Names, so that the root can hold two branches that both reach the group
\* count (1.. and 2..).
OTHER_BRANCH_OBJECT == <<2, 1>>

InitTwoBranches ==
    /\ primary = [p \in AllPaths |->
                    IF p = ROOT_PATH
                    THEN [EmptyDB(0) EXCEPT !.rows =
                            {Record(OTHER_BRANCH_OBJECT, 0, 1, "text/plain",
                                    "etag", 0, 0, RECORD_TYPE_OBJECT)}]
                    ELSE NoDB]
    /\ handoff = [p \in AllPaths |-> NoDB]
    /\ shard_brokers = NoMap
    /\ shard_cleanups = NoMap
    /\ pool = {}
    /\ pc = "idle"
    /\ todo = {}
    /\ cur = NoCur
    /\ now = 1
    /\ passes = 0
    /\ errors = 0
    /\ uploaded = {OTHER_BRANCH_OBJECT}
    /\ hist = NoHist

\* The same start with a root whose owner has sent X-Container-Sharding: Off.
InitShardingOff ==
    /\ primary = [p \in AllPaths |->
                    IF p = ROOT_PATH
                    THEN [EmptyDB(0) EXCEPT !.metadata.sharding = <<"Off", 0>>]
                    ELSE NoDB]
    /\ handoff = [p \in AllPaths |-> NoDB]
    /\ shard_brokers = NoMap
    /\ shard_cleanups = NoMap
    /\ pool = {}
    /\ pc = "idle"
    /\ todo = {}
    /\ cur = NoCur
    /\ now = 1
    /\ passes = 0
    /\ errors = 0
    /\ uploaded = {}
    /\ hist = NoHist

PrefixOf(db) ==
    IF db.metadata.shard_prefix = <<>> THEN <<>> ELSE db.metadata.shard_prefix[1]

\* A client PUT that lands in one of the container's DBs (the root, or a
\* shard whose prefix covers the name).
Upload(k, path) ==
    /\ pc = "idle"
    /\ passes < MaxPasses
    /\ k \notin uploaded
    /\ Cardinality(uploaded) < MaxObjs
    /\ primary[path].exists
    /\ startswith(k, PrefixOf(primary[path]))
    /\ primary' = [primary EXCEPT ![path].rows =
                      merge_items(@, <<Record(k, now, 1, "text/plain", "etag", 0,
                                              primary[path].storage_policy_index,
                                              RECORD_TYPE_OBJECT)>>)]
    /\ uploaded' = uploaded \cup {k}
    /\ UNCHANGED <<handoff, shard_brokers, shard_cleanups, pool, pc, todo, cur,
                   now, passes, errors, hist>>

\* enable_sharding: the owner POSTs X-Container-Sharding: On to the container,
\* which the container server keeps as X-Container-Sysmeta-Sharding.
EnableSharding ==
    /\ pc = "idle"
    /\ passes < MaxPasses
    /\ primary[ROOT_PATH].metadata.sharding \notin {<<"On", t>> : t \in 0..now}
    /\ primary' = [primary EXCEPT ![ROOT_PATH].metadata.sharding = <<"On", now>>]
    /\ UNCHANGED <<handoff, shard_brokers, shard_cleanups, pool, pc, todo, cur,
                   now, passes, errors, uploaded, hist>>

\* run_forever / _one_shard_pass lines 438-447: a pass starts with fresh maps
\* and the list of local DBs.
StartPass ==
    /\ pc = "idle"
    /\ pool = {}
    /\ passes < MaxPasses
    /\ passes' = passes + 1
    /\ shard_brokers' = NoMap
    /\ shard_cleanups' = NoMap
    /\ todo' = {p \in AllPaths : primary[p].exists}
    /\ pc' = "loop"
    /\ cur' = NoCur
    /\ hist' = NoHist
    /\ UNCHANGED <<primary, handoff, pool, now, errors, uploaded>>

\* A pass that goes to the candidate whatever the counting trie reports.
AfterScan_candidate(misplaced) == "candidate"

\* line 514: if counting_trie.misplaced: the relocation comes first.
AfterScan(misplaced) == IF misplaced # <<>> THEN "misplaced" ELSE "candidate"

\* A candidate phase that works through the whole list.
CandidatesTaken_all(candidates) == candidates

\* lines 533-534: if counting_trie.candidates: candidate = candidates[0].
\* The phase takes the first entry of the list and no other.
CandidatesTaken(candidates) == Take(candidates, 1)

\* Where the main task goes once a split is complete: line 533 is an "if",
\* so with nothing left to take the DB loop goes on.
AfterSplit(work) == IF work = <<>> THEN "loop" ELSE "candidate"

\* lines 453-454: sharded = metadata.get('X-Container-Sysmeta-Sharding') or
\* metadata.get('X-Container-Sysmeta-Shard-Account').  A metadata entry is
\* a (value, timestamp) pair (as lines 460-461 take prefix[0]), so the test
\* is whether the key is there, whatever its value.
IsSharded(metadata) == metadata.sharding # <<>> \/ metadata.shard_account # <<>>

\* lines 448-512: take the next local DB, skip it unless it takes part in
\* sharding, and load its listing into the counting trie.
NextDB(path) ==
    /\ pc = "loop"
    /\ path \in todo
    /\ todo' = todo \ {path}
    /\ LET broker == primary[path]
           sharded == IsSharded(broker.metadata)
           root == get_shard_root_path(path, broker)
           prefix == PrefixOf(broker)
           is_root == root[2] = path[2]
           ing == Ingest(broker.rows, prefix, is_root)
       IN  IF ~sharded
           THEN /\ pc' = "loop"
                /\ cur' = NoCur
                /\ hist' = NoHist
           ELSE /\ cur' = [NoCur EXCEPT !.path = path,
                                        !.root_account = root[1],
                                        !.root_container = root[2],
                                        !.prefix = prefix,
                                        !.is_root = is_root,
                                        !.misplaced = ing.ct.misplaced,
                                        !.candidates = ing.ct.candidates,
                                        !.work = CandidatesTaken(
                                                    ing.ct.candidates)]
                /\ hist' = [NoHist EXCEPT !.pre = broker.rows,
                                          !.pre_dbs = {p \in AllPaths :
                                                         primary[p].exists},
                                          !.listed = ing.ct.log,
                                          !.listings = ing.listings,
                                          !.phase = "scanned"]
                /\ pc' = AfterScan(ing.ct.misplaced)
    /\ UNCHANGED <<primary, handoff, shard_brokers, shard_cleanups, pool, now,
                   passes, errors, uploaded>>


\* ------------------------------------------------------------ pool tasks
Task(fn, path) == [fn |-> fn, path |-> path]

\* A waitall that returns at once.
waitall_at_once == TRUE

\* self.cpool.waitall(): the main task goes on once no spawned task is left.
waitall == pool = {}

RECURSIVE SetToSeq(_)
SetToSeq(S) ==
    IF S = {} THEN <<>>
    ELSE LET x == CHOOSE y \in S : TRUE IN <<x>> \o SetToSeq(S \ {x})

\* delete_db(broker), lines 427-436: while shard_cleanups is a map the broker
\* is only registered; otherwise the local DB file is removed.
delete_db_cleanups(sc, path) ==
    IF ~sc.none THEN [sc EXCEPT !.map = (path[2] :> path) @@ @] ELSE sc
delete_db_store(sc, store, path) ==
    IF ~sc.none THEN store ELSE [store EXCEPT ![path] = NoDB]

\* _replicate_object(part, db_file, node_id): the replicator pushes the
\* handoff DB to the partition's primaries and, the DB not belonging on this
\* node, ends in delete_db.
PushDB(from, to) ==
    [exists |-> TRUE,
     metadata |-> [f \in DOMAIN NoMeta |->
                     IF to.metadata[f] # <<>> THEN to.metadata[f]
                     ELSE from.metadata[f]],
     rows |-> merge_items(to.rows, SetToSeq(from.rows)),
     storage_policy_index |-> IF to.exists THEN to.storage_policy_index
                              ELSE from.storage_policy_index]

Replicate(t) ==
    /\ t \in pool
    /\ t.fn = "replicate"
    /\ pool' = pool \ {t}
    /\ IF handoff[t.path].exists
       THEN /\ primary' = [primary EXCEPT ![t.path] = PushDB(handoff[t.path], @)]
            /\ shard_cleanups' = delete_db_cleanups(shard_cleanups, t.path)
            /\ handoff' = delete_db_store(shard_cleanups, handoff, t.path)
       ELSE UNCHANGED <<primary, shard_cleanups, handoff>>
    /\ hist' = [hist EXCEPT !.replicated = @ \cup {t.path}]
    /\ UNCHANGED <<shard_brokers, pc, todo, cur, now, passes, errors, uploaded>>

\* A delete_db task spawned by the main task (lines 382-383, 649-650).
DeleteDb(t) ==
    /\ t \in pool
    /\ t.fn = "delete_db"
    /\ pool' = pool \ {t}
    /\ shard_cleanups' = delete_db_cleanups(shard_cleanups, t.path)
    /\ handoff' = delete_db_store(shard_cleanups, handoff, t.path)
    /\ UNCHANGED <<primary, shard_brokers, pc, todo, cur, now, passes, errors,
                   uploaded, hist>>

\* ------------------------------------------- _deal_with_misplaced_objects
Policy == primary[cur.path].storage_policy_index

\* lines 350-365: fetch the root trie and route every misplaced record; a
\* Timeout or a non-2xx answer of the internal client leaves the pass.
MisplacedRoute(timeout) ==
    /\ pc = "misplaced"
    /\ LET root == _get_shard_trie(primary, cur.root_account, cur.root_container)
           routed == RouteMisplaced(primary, root.trie, cur.misplaced,
                                    cur.root_account, cur.root_container,
                                    [res |-> "ok", cache |-> (<<>> :> root.trie),
                                     fetched |-> <<>>, hops |-> <<>>,
                                     buckets |-> <<>>])
       IN  IF timeout \/ ~root.ok \/ routed.res # "ok"
           THEN /\ pc' = "raised"
                /\ cur' = cur
                /\ hist' = [hist EXCEPT !.exc = "http"]
           ELSE /\ pc' = "fill"
                /\ cur' = [cur EXCEPT !.buckets = routed.buckets]
                /\ hist' = [hist EXCEPT !.fetched = routed.fetched,
                                        !.hops = routed.hops,
                                        !.phase = "routed"]
    /\ UNCHANGED <<primary, handoff, shard_brokers, shard_cleanups, pool, todo,
                   now, passes, errors, uploaded>>

Without(f, k) == [x \in DOMAIN f \ {k} |-> f[x]]

\* lines 369-374: fill the handoff broker of one shard and spawn its
\* replication.  Unpacking the None that _get_and_fill_shard_broker returns
\* after DeviceUnavailable is a TypeError.
MisplacedFill(shard_prefix, avail) ==
    /\ pc = "fill"
    /\ shard_prefix \in DOMAIN cur.buckets
    /\ now' = now + 1
    /\ LET f == _get_and_fill_shard_broker(
                    shard_brokers, handoff, shard_prefix,
                    ListInput(RowItems(cur.buckets[shard_prefix])),
                    cur.root_account, cur.root_container, Policy, FALSE,
                    avail, now')
       IN  IF f.ret # "ok"
           THEN /\ pc' = "raised"
                /\ hist' = [hist EXCEPT !.exc = IF f.ret = "None"
                                                THEN "TypeError" ELSE "fill",
                                        !.unavailable = (f.ret = "None")]
                /\ handoff' = f.store
                /\ shard_brokers' = f.sb
                /\ UNCHANGED <<pool, cur>>
           ELSE /\ handoff' = f.store
                /\ shard_brokers' = f.sb
                /\ pool' = pool \cup {Task("replicate", f.triple[2])}
                /\ cur' = [cur EXCEPT !.buckets = Without(@, shard_prefix)]
                /\ hist' = [hist EXCEPT !.calls =
                               Append(@, Call("handoff", f.triple[2], f.objects))]
                /\ pc' = pc
    /\ UNCHANGED <<primary, shard_cleanups, todo, passes, errors, uploaded>>

CleanupTasks(sc) == {Task("delete_db", sc.map[c]) : c \in DOMAIN sc.map}

\* lines 375-383: waitall, then both maps become None and the registered
\* brokers are handed to delete_db tasks.
MisplacedCleanup ==
    /\ pc = "fill"
    /\ DOMAIN cur.buckets = {}
    /\ waitall
    /\ pool' = CleanupTasks(shard_cleanups)
    /\ shard_cleanups' = IsNone
    /\ shard_brokers' = IsNone
    /\ pc' = "mclean"
    /\ UNCHANGED <<primary, handoff, todo, cur, now, passes, errors, uploaded,
                   hist>>

\* A misplaced phase after which the maps stay as lines 378-379 left them.
reset_maps_skipped == IsNone

\* lines 522-523: self.shard_brokers = dict(); self.shard_cleanups = dict()
reset_maps == NoMap

\* lines 384-392 and 522-523: waitall, tombstone the relocated records in
\* the parent, and start the split phase with empty maps.
MisplacedTombstone ==
    /\ pc = "mclean"
    /\ waitall
    /\ now' = now + 1
    /\ LET objs == [i \in 1..Len(cur.misplaced) |-> cur.misplaced[i][3]]
           items == _generate_object_list(ListInput(RowItems(objs)), Policy,
                                          TRUE, now', FALSE)
       IN  /\ primary' = [primary EXCEPT ![cur.path].rows =
                             merge_items(@, items.objs)]
           /\ hist' = [hist EXCEPT !.calls =
                          Append(@, Call("primary", cur.path, items.objs)),
                                   !.phase = "relocated"]
    /\ shard_brokers' = reset_maps
    /\ shard_cleanups' = reset_maps
    /\ pc' = "candidate"
    /\ UNCHANGED <<handoff, pool, todo, cur, passes, errors, uploaded>>


\* --------------------------------------------------------- the split phase
\* add_other_nodes(marker, ...), lines 565-580.  build_shard_trie returns a
\* pair (line 535 unpacks it), and line 568 keeps the pair: generating
\* records from it and reading tmp_trie.metadata raise on the first turn of
\* the loop, before any record of a further page is merged.
add_other_nodes(marker) == IF marker = <<>> THEN "ok" ELSE "raise"

\* A candidate test that never finds the branch already distributed.
is_distributed_never(node) == FALSE

\* line 539: if trie[candidate].flag == DISTRIBUTED_BRANCH
is_distributed(node) == node.flag = DISTRIBUTED_BRANCH

\* lines 533-561: take candidates[0], build its sub-trie, split it off and
\* fill the handoff broker of the new shard.
Candidate(avail) ==
    /\ pc = "candidate"
    /\ IF cur.work = <<>>
       THEN /\ pc' = "loop"
            /\ UNCHANGED <<handoff, shard_brokers, cur, hist, now>>
       ELSE LET candidate == Head(cur.work)
                trie == build_shard_trie(primary[cur.path].rows, <<>>, candidate)[1]
                got == lookup(trie, candidate)
                marker == IF data_node_count(trie) = CONTAINER_LISTING_LIMIT
                          THEN get_last_node(trie) ELSE <<>>
                split_trie == SplitOff(trie, candidate)
                f == _get_and_fill_shard_broker(
                        shard_brokers, handoff, split_trie.root_key,
                        TrieInput(split_trie), cur.root_account,
                        cur.root_container, Policy, FALSE, avail, now + 1)
            IN  IF got.kind # "node"
                THEN /\ pc' = "raised"
                     /\ hist' = [hist EXCEPT !.exc = "lookup"]
                     /\ UNCHANGED <<handoff, shard_brokers, cur, now>>
                ELSE IF is_distributed(got.node)
                THEN /\ pc' = "loop"
                     /\ hist' = [hist EXCEPT !.warnings = @ + 1,
                                             !.phase = "screwy"]
                     /\ UNCHANGED <<handoff, shard_brokers, cur, now>>
                ELSE IF f.ret # "ok"
                THEN /\ pc' = "raised"
                     /\ now' = now + 1
                     /\ hist' = [hist EXCEPT !.exc = IF f.ret = "None"
                                                     THEN "TypeError" ELSE "fill",
                                             !.unavailable = (f.ret = "None")]
                     /\ handoff' = f.store
                     /\ shard_brokers' = f.sb
                     /\ cur' = cur
                ELSE /\ pc' = "paging"
                     /\ now' = now + 1
                     /\ handoff' = f.store
                     /\ shard_brokers' = f.sb
                     /\ cur' = [cur EXCEPT
                                  !.work = Tail(@),
                                  !.candidate = candidate,
                                  !.trie = SplitRest(trie, candidate, now'),
                                  !.split_trie = split_trie,
                                  !.marker = marker,
                                  !.new_broker = f.triple]
                     /\ hist' = [hist EXCEPT
                                  !.calls = Append(@, Call("handoff", f.triple[2],
                                                           f.objects)),
                                  !.splits = @ + 1,
                                  !.phase = "split"]
    /\ UNCHANGED <<primary, shard_cleanups, pool, todo, passes, errors, uploaded>>

\* line 582: add_other_nodes(marker, new_broker)
AddOtherNodes ==
    /\ pc = "paging"
    /\ IF add_other_nodes(cur.marker) = "ok"
       THEN /\ pc' = "create"
            /\ hist' = hist
       ELSE /\ pc' = "raised"
            /\ hist' = [hist EXCEPT !.exc = "paging"]
    /\ UNCHANGED <<primary, handoff, shard_brokers, shard_cleanups, pool, todo,
                   cur, now, passes, errors, uploaded>>

\* A create_container whose UnexpectedResponse leaves the pass.
AfterCreate_raise(ok) == IF ok THEN "swait" ELSE "raised"

\* lines 583-598: the except clause for UnexpectedResponse only logs a
\* warning, so the replication is spawned and awaited either way.
AfterCreate(ok) == "swait"

\* lines 583-598: PUT the new container (an UnexpectedResponse is only
\* logged) and spawn the replication of the new shard DB.
CreateContainer(ok) ==
    /\ pc = "create"
    /\ LET path == cur.new_broker[2]
       IN  /\ primary' = IF ok /\ ~primary[path].exists
                         THEN [primary EXCEPT ![path] = EmptyDB(Policy)]
                         ELSE primary
           /\ hist' = [hist EXCEPT !.created = Append(@, <<path, ok>>),
                                   !.warnings = IF ok THEN @ ELSE @ + 1]
           /\ pool' = pool \cup {Task("replicate", path)}
    /\ pc' = AfterCreate(ok)
    /\ UNCHANGED <<handoff, shard_brokers, shard_cleanups, todo, cur, now,
                   passes, errors, uploaded>>

\* The record of the new distributed node generated as a deleted one.
DistNodeItem_deleted(candidate, dist_node, policy_index) ==
    _generate_object_list(TrieInput(ShardTrie(candidate, {dist_node})),
                          policy_index, TRUE, 0, FALSE)

\* lines 610-613: the record of the new distributed node, not deleted and
\* with the node's own timestamp.
DistNodeItem(candidate, dist_node, policy_index) ==
    _generate_object_list(TrieInput(ShardTrie(candidate, {dist_node})),
                          policy_index, FALSE, 0, FALSE)

\* A batch that leaves the new distributed node out.
ParentItems_tombstones(items, dist_node_item) == items

\* line 614: items += dist_node_item
ParentItems(items, dist_node_item) == items \o dist_node_item

\* lines 598-623: waitall, then one merge_items on the parent with the
\* tombstones of the split subtree and the new distributed node.
MergeParent ==
    /\ pc = "swait"
    /\ waitall
    /\ now' = now + 1
    /\ LET items == _generate_object_list(TrieInput(cur.split_trie), Policy,
                                          TRUE, now', cur.is_root)
           dist_node == lookup(cur.trie, cur.candidate)
           dist_node_item == DistNodeItem(cur.candidate, dist_node.node, Policy)
           all == ParentItems(items.objs, dist_node_item.objs)
       IN  IF dist_node.kind # "node"
           THEN /\ pc' = "raised"
                /\ hist' = [hist EXCEPT !.exc = "lookup"]
                /\ UNCHANGED <<primary, cur>>
           ELSE /\ primary' = [primary EXCEPT ![cur.path].rows =
                                  merge_items(@, all)]
                /\ cur' = [cur EXCEPT !.dist_node_item = dist_node_item.objs]
                /\ IF data_node_count(cur.trie) = CONTAINER_LISTING_LIMIT
                      /\ add_other_nodes(get_last_node(cur.trie)) # "ok"
                   THEN /\ pc' = "raised"
                        /\ hist' = [hist EXCEPT
                                      !.calls = Append(@, Call("primary", cur.path, all)),
                                      !.exc = "paging"]
                   ELSE /\ pc' = IF cur.is_root THEN AfterSplit(cur.work)
                                  ELSE "propagate"
                        /\ hist' = [hist EXCEPT
                                      !.calls = Append(@, Call("primary", cur.path, all)),
                                      !.phase = "merged"]
    /\ UNCHANGED <<handoff, shard_brokers, shard_cleanups, pool, todo, passes,
                   errors, uploaded>>

\* lines 625-635: push the new distributed node up to the root container.
\* dist_node_item is a list of generated records (dicts), not of raw rows.
Propagate(avail) ==
    /\ pc = "propagate"
    /\ now' = now + 1
    /\ LET f == _get_and_fill_shard_broker(
                    shard_brokers, handoff, <<>>,
                    ListInput(DictItems(cur.dist_node_item)),
                    cur.root_account, cur.root_container, Policy, FALSE,
                    avail, now')
       IN  /\ handoff' = f.store
           /\ shard_brokers' = f.sb
           /\ IF f.ret # "ok"
              THEN /\ pc' = "raised"
                   /\ hist' = [hist EXCEPT !.exc = IF f.ret = "None"
                                                   THEN "TypeError" ELSE "KeyError",
                                           !.unavailable = (f.ret = "None")]
                   /\ pool' = pool
              ELSE /\ pc' = "pwait"
                   /\ pool' = pool \cup {Task("replicate", f.triple[2])}
                   /\ hist' = [hist EXCEPT
                                 !.calls = Append(@, Call("handoff", f.triple[2],
                                                          f.objects)),
                                 !.phase = "propagated"]
    /\ UNCHANGED <<primary, shard_cleanups, todo, cur, passes, errors, uploaded>>

\* lines 643-651: after the loop the registered brokers are cleaned up.
EndPass ==
    /\ pc = "loop"
    /\ todo = {}
    /\ pool' = pool \cup CleanupTasks(shard_cleanups)
    /\ shard_cleanups' = IsNone
    /\ pc' = "ewait"
    /\ UNCHANGED <<primary, handoff, shard_brokers, todo, cur, now, passes,
                   errors, uploaded, hist>>

\* waitall at line 635 (back to the loop) and at line 651 (the pass is over).
WaitAll ==
    /\ pc \in {"pwait", "ewait"}
    /\ waitall
    /\ pc' = IF pc = "pwait" THEN AfterSplit(cur.work) ELSE "idle"
    /\ cur' = IF pc = "pwait" THEN cur ELSE NoCur
    /\ hist' = IF pc = "pwait" THEN hist ELSE NoHist
    /\ UNCHANGED <<primary, handoff, shard_brokers, shard_cleanups, pool, todo,
                   now, passes, errors, uploaded>>

\* A handler that logs the failure without counting it.
increment_not(errors_so_far) == errors_so_far

\* line 687: self.logger.increment('errors')
increment(errors_so_far) == errors_so_far + 1

\* run_forever, lines 686-690: whatever escapes the pass is counted and
\* logged; the daemon sleeps and goes on.
Raised ==
    /\ pc = "raised"
    /\ errors' = increment(errors)
    /\ pc' = "idle"
    /\ cur' = NoCur
    /\ hist' = NoHist
    /\ todo' = {}
    /\ UNCHANGED <<primary, handoff, shard_brokers, shard_cleanups, pool, now,
                   passes, uploaded>>

Next ==
    \/ \E k \in Names, path \in AllPaths : Upload(k, path)
    \/ EnableSharding
    \/ StartPass
    \/ \E path \in AllPaths : NextDB(path)
    \/ \E t \in pool : Replicate(t)
    \/ \E t \in pool : DeleteDb(t)
    \/ \E timeout \in BOOLEAN : MisplacedRoute(timeout)
    \/ \E shard_prefix \in Prefixes, avail \in BOOLEAN :
          MisplacedFill(shard_prefix, avail)
    \/ MisplacedCleanup
    \/ MisplacedTombstone
    \/ \E avail \in BOOLEAN : Candidate(avail)
    \/ AddOtherNodes
    \/ \E ok \in BOOLEAN : CreateContainer(ok)
    \/ MergeParent
    \/ \E avail \in BOOLEAN : Propagate(avail)
    \/ EndPass
    \/ WaitAll
    \/ Raised

Spec == Init /\ [][Next]_vars

\* run_forever is a "while True" around the pass: after a pass, failed or
\* not, the main task sleeps and starts the next one, and the tasks left on
\* the pool run whenever the main task yields.  Hence weak fairness of the
\* main task between passes (the handler, the start of a pass) and of the
\* pool tasks.
FairSpec ==
    /\ Spec
    /\ WF_vars(Raised \/ StartPass)
    /\ WF_vars(\E t \in pool : Replicate(t) \/ DeleteDb(t))

\* ------------------------------------------------ the factory on its own
\* One request to the factory, as the misplaced phase and the split phase
\* make them: a fill of the handoff broker of the shard at prefix with one
\* object record (the shard's own name or one a letter longer), with a
\* handoff device at hand or not.  MaxFills bounds the requests and resets.
FactoryFill(prefix, k, avail) ==
    /\ now <= MaxFills
    /\ startswith(k, prefix)
    /\ Len(k) <= Len(prefix) + 1
    /\ now' = now + 1
    /\ LET ac == get_container_shard_path(ROOT_ACCOUNT, ROOT_CONTAINER, prefix)
           row == <<k, now, 1, "text/plain", "etag">>
           f == _get_and_fill_shard_broker(
                    shard_brokers, handoff, prefix, ListInput(RowItems(<<row>>)),
                    ROOT_ACCOUNT, ROOT_CONTAINER, 0, FALSE, avail, now')
       IN  /\ handoff' = f.store
           /\ shard_brokers' = f.sb
           /\ hist' = [hist EXCEPT !.calls =
                          Append(@, [where |-> f.ret, path |-> ac,
                                     items |-> f.objects, avail |-> avail,
                                     triple |-> f.triple])]
    /\ UNCHANGED <<primary, shard_cleanups, pool, pc, todo, cur, passes, errors,
                   uploaded>>

\* lines 446-447 and 522-523: the maps are created anew; the handoff DBs
\* that were not cleaned up stay on disk.
FactoryReset ==
    /\ now <= MaxFills
    /\ hist.calls # <<>>
    /\ shard_brokers' = NoMap
    /\ hist' = NoHist
    /\ now' = now + 1
    /\ UNCHANGED <<primary, handoff, shard_cleanups, pool, pc, todo, cur, passes,
                   errors, uploaded>>

NextFactory ==
    \/ \E prefix \in Prefixes, k \in Names, avail \in BOOLEAN :
          FactoryFill(prefix, k, avail)
    \/ FactoryReset

\* The factory under every sequence of requests between resets.
SpecFactory == Init /\ [][NextFactory]_vars

\* ------------------------------------------------ the resolver on its own
\* The forests the internal client can serve: the root and some shard DBs,
\* each holding TRIE_NODE rows for branches strictly under its own prefix
\* (lines 603-615 and 625-635 write a branch into its parent and into the
\* root only).  A branch whose shard DB is not there yet (lines 583-598
\* failed or are still under way) answers 404.
ShardKeys == Prefixes \ {<<>>}
ForestEdges ==
    {e \in Prefixes \X ShardKeys : startswith(e[2], e[1]) /\ e[1] # e[2]}
TrieNodeRow(name) == Record(name, 0, 0, "", "", 0, 0, RECORD_TYPE_TRIE_NODE)
Forest(edges, present) ==
    [p \in AllPaths |->
        IF p = ROOT_PATH \/ p[2][2] \in present
        THEN [EmptyDB(0) EXCEPT !.rows =
                {TrieNodeRow(e[2]) : e \in {x \in edges : x[1] = p[2][2]}}]
        ELSE NoDB]

InitForest ==
    /\ \E edges \in SUBSET ForestEdges, present \in SUBSET ShardKeys :
          /\ present \subseteq {e[2] : e \in edges}
          /\ \A e \in edges : e[1] = <<>> \/ e[1] \in present
          /\ primary = Forest(edges, present)
    /\ handoff = [p \in AllPaths |-> NoDB]
    /\ shard_brokers = NoMap
    /\ shard_cleanups = NoMap
    /\ pool = {}
    /\ pc = "idle"
    /\ todo = {}
    /\ cur = NoCur
    /\ now = 1
    /\ passes = 0
    /\ errors = 0
    /\ uploaded = {}
    /\ hist = NoHist

\* The misplaced lists routed in one phase: one key, or two distinct keys
\* so that the second one meets the cache the first one filled.
KeyLists ==
    {<<k>> : k \in Names}
      \cup {<<k[1], k[2]>> : k \in {x \in Names \X Names : x[1] # x[2]}}

\* lines 350-365 on their own: the caches are created, the root trie is
\* fetched and every misplaced key is resolved in turn.
ResolveKeys(keys) ==
    /\ hist.phase = "none"
    /\ LET misplaced == [i \in DOMAIN keys |->
                            <<keys[i], <<>>,
                              <<keys[i], 1, 1, "text/plain", "etag">>>>]
           root == _get_shard_trie(primary, ROOT_ACCOUNT, ROOT_CONTAINER)
           routed == RouteMisplaced(primary, root.trie, misplaced,
                                    ROOT_ACCOUNT, ROOT_CONTAINER,
                                    [res |-> "ok", cache |-> (<<>> :> root.trie),
                                     fetched |-> <<>>, hops |-> <<>>,
                                     buckets |-> <<>>])
       IN  /\ cur' = [cur EXCEPT !.misplaced = misplaced,
                                  !.buckets = routed.buckets]
           /\ hist' = [hist EXCEPT !.fetched = routed.fetched,
                                   !.hops = routed.hops,
                                   !.exc = IF routed.res = "ok" THEN "none"
                                           ELSE routed.res,
                                   !.phase = "routed"]
    /\ UNCHANGED <<primary, handoff, shard_brokers, shard_cleanups, pool, pc,
                   todo, now, passes, errors, uploaded>>

NextResolver == \E keys \in KeyLists : ResolveKeys(keys)

\* The resolver over every forest and every short list of keys.
SpecResolver == InitForest /\ [][NextResolver]_vars

\* ------------------------------------------------- split_trie on its own
\* The tries a DB can be read into: flagged nodes under the root key, DATA
\* nodes with their record, and no node below a distributed branch.
DataNode(name) ==
    TrieNode(name, DATA, 1, [size |-> 1, content_type |-> "text/plain",
                             etag |-> "etag"])
TrieOf(root_key, data, dist) ==
    ShardTrie(root_key, {DataNode(n) : n \in data}
                          \cup {TrieNode(d, DISTRIBUTED_BRANCH, 0, NoData)
                                  : d \in dist})
InitTrie ==
    /\ \E root_key \in Prefixes, data \in SUBSET Names, dist \in SUBSET Names :
          /\ data \cap dist = {}
          /\ \A k \in data \cup dist : startswith(k, root_key)
          /\ \A d \in dist : \A k \in data \cup dist :
                startswith(k, d) => k = d
          /\ cur = [NoCur EXCEPT !.trie = TrieOf(root_key, data, dist)]
    /\ primary = [p \in AllPaths |-> IF p = ROOT_PATH THEN EmptyDB(0) ELSE NoDB]
    /\ handoff = [p \in AllPaths |-> NoDB]
    /\ shard_brokers = NoMap
    /\ shard_cleanups = NoMap
    /\ pool = {}
    /\ pc = "candidate"
    /\ todo = {}
    /\ now = 2
    /\ passes = 0
    /\ errors = 0
    /\ uploaded = {}
    /\ hist = NoHist

\* lines 538-552: node = trie[candidate]; a candidate that is a distributed
\* branch is skipped, any other one is split off.
SplitTrie(candidate) ==
    /\ hist.phase = "none"
    /\ startswith(candidate, cur.trie.root_key)
    /\ lookup(cur.trie, candidate).kind = "node"
    /\ IF is_distributed(lookup(cur.trie, candidate).node)
       THEN /\ hist' = [hist EXCEPT !.warnings = @ + 1, !.phase = "screwy"]
            /\ cur' = [cur EXCEPT !.candidate = candidate]
       ELSE /\ hist' = [hist EXCEPT !.before = cur.trie, !.phase = "split"]
            /\ cur' = [cur EXCEPT !.candidate = candidate,
                                  !.trie = SplitRest(cur.trie, candidate, now),
                                  !.split_trie = SplitOff(cur.trie, candidate)]
    /\ UNCHANGED <<primary, handoff, shard_brokers, shard_cleanups, pool, pc,
                   todo, now, passes, errors, uploaded>>

NextSplit == \E candidate \in Prefixes \cup Names : SplitTrie(candidate)

\* split_trie over every trie and every candidate in it.
SpecSplit == InitTrie /\ [][NextSplit]_vars

\* ---------------------------------------------- the counting trie on its own
\* lines 468-469: counting_trie = CountingTrie(prefix, SHARD_GROUP_COUNT) for
\* the root (empty prefix) and for a shard.
InitCounting ==
    /\ \E prefix \in {p \in Prefixes : Len(p) <= 1 /\ p # <<2>>} :
          cur = [NoCur EXCEPT !.prefix = prefix,
                              !.counting_trie =
                                  CountingTrie(prefix, SHARD_GROUP_COUNT)]
    /\ primary = [p \in AllPaths |-> IF p = ROOT_PATH THEN EmptyDB(0) ELSE NoDB]
    /\ handoff = [p \in AllPaths |-> NoDB]
    /\ shard_brokers = NoMap
    /\ shard_cleanups = NoMap
    /\ pool = {}
    /\ pc = "loop"
    /\ todo = {}
    /\ now = 1
    /\ passes = 0
    /\ errors = 0
    /\ uploaded = {}
    /\ hist = NoHist

\* The item of one add: an object row (lines 505-506) or a shard-node row
\* (lines 473-475, 497-499), which the trie keeps as the add's data.
AddItem(key, distributed) ==
    IF distributed THEN <<key, 0>> ELSE <<key, 1, 1, "text/plain", "etag">>

\* counting_trie.add(item[0], distributed, item): any add not made yet.
CountingAdd(key, distributed) ==
    /\ Len(cur.counting_trie.log) < MaxAdds
    /\ <<key, distributed>> \notin Range(cur.counting_trie.log)
    /\ cur' = [cur EXCEPT !.counting_trie =
                  ct_add(@, key, distributed, AddItem(key, distributed))]
    /\ UNCHANGED <<primary, handoff, shard_brokers, shard_cleanups, pool, pc,
                   todo, now, passes, errors, uploaded, hist>>

NextCounting ==
    \E key \in Names, distributed \in BOOLEAN : CountingAdd(key, distributed)

\* The counting trie under every sequence of distinct adds.
SpecCounting == InitCounting /\ [][NextCounting]_vars

\* ------------------------------------------------ the scan of one DB on its own
\* The DBs a pass can meet: the sharded root, or the shard at a prefix with
\* its shard sysmeta, holding any objects (also misplaced ones) and
\* TRIE_NODE rows for branches under its prefix.
ObjectRow(name) ==
    Record(name, 1, 1, "text/plain", "etag", 0, 0, RECORD_TYPE_OBJECT)
ListedDB(prefix, objs, dist) ==
    [EmptyDB(0) EXCEPT
       !.rows = {ObjectRow(n) : n \in objs} \cup {TrieNodeRow(d) : d \in dist},
       !.metadata =
          IF prefix = <<>> THEN [NoMeta EXCEPT !.sharding = <<"On", 0>>]
          ELSE [NoMeta EXCEPT !.shard_account = <<ROOT_ACCOUNT, 0>>,
                              !.shard_container = <<ROOT_CONTAINER, 0>>,
                              !.shard_prefix = <<prefix, 0>>]]
InitListing ==
    /\ \E prefix \in {p \in Prefixes : Len(p) <= 1 /\ p # <<2>>},
          objs \in SUBSET Names, dist \in SUBSET Names :
          /\ Cardinality(objs) <= MaxObjs
          /\ \A d \in dist : Under(d, prefix)
          /\ LET path == get_container_shard_path(ROOT_ACCOUNT, ROOT_CONTAINER,
                                                  prefix)
             IN  /\ primary = [p \in AllPaths |->
                                 IF p = path THEN ListedDB(prefix, objs, dist)
                                 ELSE NoDB]
                 /\ todo = {path}
    /\ handoff = [p \in AllPaths |-> NoDB]
    /\ shard_brokers = NoMap
    /\ shard_cleanups = NoMap
    /\ pool = {}
    /\ pc = "loop"
    /\ cur = NoCur
    /\ now = 1
    /\ passes = 1
    /\ errors = 0
    /\ uploaded = {}
    /\ hist = NoHist

NextIngest == \E path \in AllPaths : NextDB(path)

\* Lines 448-512 over every DB of the bounded universe.
SpecIngest == InitListing /\ [][NextIngest]_vars

\* -------------------------------------- _generate_object_list on its own
\* The raw rows a caller can hand over: an object row (list_objects_iter), a
\* shard-node row (get_shard_nodes), and rows that are not in the right
\* format: an object row cut short and an empty one.
GenNames == {k \in Names : Len(k) <= 2 /\ k[1] = 1}
GenRows ==
    UNION {{<<k, 1, 1, "text/plain", "etag">>, <<k, 1>>,
            <<k, 1, 1, "text/plain">>} : k \in GenNames}
      \cup {<<>>}
GenLists ==
    {<<>>} \cup {<<r>> : r \in GenRows}
           \cup {<<r[1], r[2]>> : r \in GenRows \X GenRows}
GenInputs ==
    {ListInput(RowItems(l)) : l \in GenLists}
      \cup {TrieInput(TrieOf(<<>>, t[1], t[2])) :
              t \in {x \in (SUBSET GenNames) \X (SUBSET {<<1, 2>>, <<2>>}) :
                       \A k \in x[1] : \A d \in x[2] : ~startswith(k, d)}}

InitGenerate ==
    /\ \E input \in GenInputs, policy_index \in {0, 1}, delete \in BOOLEAN,
          timestamp \in {0, 5}, filter_dist \in BOOLEAN :
          cur = [NoCur EXCEPT !.args =
                    [input |-> input, policy_index |-> policy_index,
                     delete |-> delete, timestamp |-> timestamp,
                     filter_dist |-> filter_dist]]
    /\ primary = [p \in AllPaths |-> IF p = ROOT_PATH THEN EmptyDB(0) ELSE NoDB]
    /\ handoff = [p \in AllPaths |-> NoDB]
    /\ shard_brokers = NoMap
    /\ shard_cleanups = NoMap
    /\ pool = {}
    /\ pc = "loop"
    /\ todo = {}
    /\ now = 1
    /\ passes = 1
    /\ errors = 0
    /\ uploaded = {}
    /\ hist = NoHist

\* One call of _generate_object_list with the arguments drawn.
Generate ==
    /\ hist.phase = "none"
    /\ hist' = [hist EXCEPT
                  !.gen = _generate_object_list(
                             cur.args.input, cur.args.policy_index,
                             cur.args.delete, cur.args.timestamp,
                             cur.args.filter_dist),
                  !.phase = "generated"]
    /\ UNCHANGED <<primary, handoff, shard_brokers, shard_cleanups, pool, pc,
                   todo, cur, now, passes, errors, uploaded>>

NextGenerate == Generate

\* _generate_object_list over every input and every choice of arguments.
SpecGenerate == InitGenerate /\ [][NextGenerate]_vars

\* ------------------------------------- the factory over two accounts
\* A second account that holds a container of the same name as the first
\* one's; the local DBs of both are met in one pass (lines 441-448 walk
\* every container DB on the node's devices).
OTHER_ACCOUNT == <<"AUTH_other", 0>>
Accounts == {ROOT_ACCOUNT, OTHER_ACCOUNT}
AccountPaths ==
    {get_container_shard_path(a, ROOT_CONTAINER, p) :
        a \in Accounts, p \in Prefixes}

InitAccounts ==
    /\ primary = [p \in AccountPaths |-> NoDB]
    /\ handoff = [p \in AccountPaths |-> NoDB]
    /\ shard_brokers = NoMap
    /\ shard_cleanups = NoMap
    /\ pool = {}
    /\ pc = "loop"
    /\ todo = {}
    /\ cur = NoCur
    /\ now = 1
    /\ passes = 1
    /\ errors = 0
    /\ uploaded = {}
    /\ hist = NoHist

\* _get_and_fill_shard_broker(prefix, objs, root_account, root_container,
\* policy_index) as lines 369-370, 555-557 and 628-631 call it, for the
\* container of either account: a shard (prefix 'a') or the root itself
\* (the empty prefix of the propagation).
AccountFill(account, prefix, avail) ==
    /\ now <= MaxFills
    /\ now' = now + 1
    /\ LET ac == get_container_shard_path(account, ROOT_CONTAINER, prefix)
           row == <<prefix \o <<1>>, now, 1, "text/plain", "etag">>
           f == _get_and_fill_shard_broker(
                    shard_brokers, handoff, prefix, ListInput(RowItems(<<row>>)),
                    account, ROOT_CONTAINER, 0, FALSE, avail, now')
       IN  /\ handoff' = f.store
           /\ shard_brokers' = f.sb
           /\ hist' = [hist EXCEPT !.calls =
                          Append(@, [where |-> f.ret, path |-> ac,
                                     items |-> f.objects, avail |-> avail,
                                     triple |-> f.triple])]
    /\ UNCHANGED <<primary, shard_cleanups, pool, pc, todo, cur, passes, errors,
                   uploaded>>

NextAccounts ==
    \/ \E account \in Accounts, prefix \in {<<>>, <<1>>}, avail \in BOOLEAN :
          AccountFill(account, prefix, avail)
    \/ FactoryReset

\* The factory under the requests of a pass over the DBs of two accounts.
SpecAccounts == InitAccounts /\ [][NextAccounts]_vars

\* The daemon over a root on which sharding has been switched off.
SpecShardingOff == InitShardingOff /\ [][Next]_vars

\* The daemon over a root that can grow two candidate branches.
SpecTwoBranches == InitTwoBranches /\ [][Next]_vars


\* ============================================================= properties
\* The model follows one sharder node.  A pass visits the container DBs that
\* exist when it starts; replication is the replicator's push of a handoff DB
\* into the cluster's copy, and it succeeds.

TombstoneNames(rows) == {r.name : r \in Tombstones(rows)}
UnderPrefix(rows, p) == {n \in LiveNames(rows) : startswith(n, p)}
ShardPath(p) == get_container_shard_path(cur.root_account, cur.root_container, p)
ParentRows == primary[cur.path].rows
SplitKeys == {n.key : n \in DataNodes(cur.split_trie)}
MisplacedKeys == {cur.misplaced[i][1] : i \in DOMAIN cur.misplaced}
LiveNodeRows(rows, k) ==
    {r \in rows : r.name = k /\ r.record_type = RECORD_TYPE_TRIE_NODE
                  /\ r.deleted = 0}

\* Every DB of the family, cluster copy or local handoff DB, with the names
\* live in it.
LiveIn ==
    {x \in {"primary"} \X AllPaths \X Names :
        x[3] \in LiveNames(primary[x[2]].rows)}
    \cup {x \in {"handoff"} \X AllPaths \X Names :
            x[3] \in LiveNames(handoff[x[2]].rows)}
HoldersOf(k) == {x \in LiveIn : x[3] = k}

C2_Outcome(cand) ==
    LET N == ShardPath(cand)
        under == UnderPrefix(hist.pre, cand)
    IN  /\ {p \in AllPaths : primary[p].exists} \ hist.pre_dbs = {N}
        /\ LiveNames(primary[N].rows) = under
        /\ LiveNames(ParentRows) = LiveNames(hist.pre) \ under
        /\ under \subseteq TombstoneNames(ParentRows)
        /\ Cardinality(LiveNodeRows(ParentRows, cand)) = 1

C2_RootDone ==
    /\ cur.is_root
    /\ pc = "loop"
    /\ hist.phase \in {"merged", "screwy"}
    /\ Cardinality(UnderPrefix(hist.pre, cur.candidates[1]))
          < CONTAINER_LISTING_LIMIT

\* C2 as stated: for a root DB whose first candidate is cand, with fewer
\* than LISTING_LIMIT objects under cand and a handoff device available, one
\* pass creates exactly one new shard DB with the objects under cand and
\* leaves the root with the other objects live, those under cand tombstoned
\* and one live TRIE_NODE record named cand.
C2_AsStated == C2_RootDone => C2_Outcome(cur.candidates[1])

\* C2, amended: the same outcome, for a first candidate that is not already
\* a distributed branch of the root DB.
C2_SplitOutcome ==
    (C2_RootDone /\ cur.candidates[1] \notin ShardNodeNames(hist.pre))
        => C2_Outcome(cur.candidates[1])

\* A root split is over and the root keeps a live object of its own.
C2_Witness ==
    /\ C2_RootDone
    /\ hist.phase = "merged"
    /\ LiveNames(ParentRows) # {}
    /\ Cardinality(SplitKeys) >= SHARD_GROUP_COUNT

\* ---------------------------------------------------------------------- C3
\* C3: whenever the parent DB holds a tombstone for an object of the split
\* subtree, the replication of the new shard DB has been spawned and has
\* finished, and the cluster's copy of the new shard holds the subtree live.
C3_ReplicatedBeforeTombstone ==
    (hist.phase \in {"split", "merged", "propagated"}
     /\ SplitKeys \cap TombstoneNames(ParentRows) # {})
        => /\ cur.new_broker[2] \in hist.replicated
           /\ Task("replicate", cur.new_broker[2]) \notin pool
           /\ SplitKeys \subseteq LiveNames(primary[cur.new_broker[2]].rows)

\* The parent has received the tombstones of a split.
C3_Witness ==
    /\ hist.phase = "merged"
    /\ SplitKeys # {}
    /\ SplitKeys \subseteq TombstoneNames(ParentRows)
    /\ cur.new_broker[2] \in hist.replicated

\* ---------------------------------------------------------------------- C4
\* C4: when the candidate is taken for a DB with misplaced records, and from
\* then on, every misplaced record is tombstoned in the DB and live in a
\* shard of the cluster, no replication is pending, and neither the sub-trie
\* built for the candidate nor the split subtree holds a misplaced record.
C4_RelocationBeforeCandidate ==
    (cur.misplaced # <<>>
     /\ (pc = "candidate"
         \/ hist.phase \in {"screwy", "split", "merged", "propagated"}))
        => /\ MisplacedKeys \subseteq TombstoneNames(ParentRows)
           /\ MisplacedKeys \cap LiveNames(ParentRows) = {}
           /\ \A k \in MisplacedKeys :
                 \E p \in AllPaths \ {cur.path} : k \in LiveNames(primary[p].rows)
           /\ \A t \in pool : t.fn # "replicate"
           /\ MisplacedKeys \cap SplitKeys = {}
           /\ cur.candidates # <<>> =>
                 \A n \in DataNodes(build_shard_trie(ParentRows, <<>>,
                                                     cur.candidates[1])[1]) :
                    n.key \notin MisplacedKeys

\* The candidate of a DB is about to be taken after a relocation.
C4_Witness ==
    /\ pc = "candidate"
    /\ cur.misplaced # <<>>
    /\ cur.candidates # <<>>
    /\ hist.phase = "relocated"

\* ---------------------------------------------------------------------- C5
\* The merge_items calls on the parent that carried a tombstone of the split
\* subtree or the candidate's TRIE_NODE record.
ParentCallsOfSplit ==
    {i \in DOMAIN hist.calls :
        /\ hist.calls[i].where = "primary"
        /\ hist.calls[i].path = cur.path
        /\ \E j \in DOMAIN hist.calls[i].items :
              LET it == hist.calls[i].items[j]
              IN  \/ it.record_type = RECORD_TYPE_TRIE_NODE /\ it.name = cur.candidate
                  \/ it.record_type = RECORD_TYPE_OBJECT /\ it.deleted = 1
                     /\ it.name \in SplitKeys}
\* C5: in every state of the parent DB the objects of the split subtree are
\* tombstoned if and only if the candidate's TRIE_NODE record is live, and
\* at most one merge_items call on the parent carried any of these records.
C5_SingleMerge ==
    hist.phase \in {"split", "merged", "propagated"}
        => /\ (SplitKeys \cap TombstoneNames(ParentRows) # {})
                 <=> (LiveNodeRows(ParentRows, cur.candidate) # {})
           /\ (LiveNodeRows(ParentRows, cur.candidate) # {})
                 => SplitKeys \subseteq TombstoneNames(ParentRows)
           /\ Cardinality(ParentCallsOfSplit) <= 1

\* One call has delivered the tombstones and the TRIE_NODE record.
C5_Witness ==
    /\ hist.phase \in {"merged", "propagated"}
    /\ Cardinality(ParentCallsOfSplit) = 1
    /\ LiveNodeRows(ParentRows, cur.candidate) # {}
    /\ SplitKeys # {}
    /\ SplitKeys \subseteq TombstoneNames(ParentRows)

\* ---------------------------------------------------------------------- C6
\* C6: in a split capped at LISTING_LIMIT, once add_other_nodes has run, the
\* new shard DB holds every object under the candidate prefix.
C6_PagedShardComplete ==
    (hist.phase = "split" /\ cur.marker # <<>> /\ pc # "paging")
        => UnderPrefix(hist.pre, cur.candidate)
              \subseteq LiveNames(handoff[cur.new_broker[2]].rows)

\* ---------------------------------------------------------------------- C7
\* C7: in a split capped at LISTING_LIMIT, when the work on the parent DB is
\* over the parent holds a tombstone for every object under the candidate
\* prefix and exactly one TRIE_NODE record for the candidate.
C7_PagedParentTombstoned ==
    (hist.phase \in {"split", "merged", "propagated"} /\ cur.marker # <<>>
     /\ pc \in {"loop", "raised"})
        => /\ UnderPrefix(hist.pre, cur.candidate)
                 \subseteq TombstoneNames(ParentRows)
           /\ Cardinality({r \in ParentRows :
                             r.record_type = RECORD_TYPE_TRIE_NODE
                             /\ r.name = cur.candidate}) = 1

\* ---------------------------------------------------------------------- C8
\* C8: when the factory finds no local handoff device, the DB in hand is
\* skipped: the pass is not left by an exception, and the DB has received no
\* merge_items call.
C8_DeviceUnavailableSkips ==
    hist.unavailable
        => /\ pc # "raised"
           /\ \A i \in DOMAIN hist.calls : hist.calls[i].where # "primary"

\* ---------------------------------------------------------------------- C9
\* C9: after the split of a non-root shard DB at cand, with a handoff device
\* at hand, a handoff broker of the root container has received one
\* merge_items call whose only record is the live TRIE_NODE record cand.
C9_RootPropagation ==
    (~cur.is_root /\ hist.phase \in {"merged", "propagated"}
     /\ pc # "propagate" /\ ~hist.unavailable)
        => \E i \in DOMAIN hist.calls :
              /\ hist.calls[i].where = "handoff"
              /\ hist.calls[i].path = <<cur.root_account, cur.root_container>>
              /\ Len(hist.calls[i].items) = 1
              /\ hist.calls[i].items[1].name = cur.candidate
              /\ hist.calls[i].items[1].record_type = RECORD_TYPE_TRIE_NODE
              /\ hist.calls[i].items[1].deleted = 0

\* --------------------------------------------------------------------- C10
\* The prefix the resolver returns for a key, from the root trie.
Resolved(k) ==
    LET root == _get_shard_trie(primary, cur.root_account, cur.root_container)
    IN  _find_shard_container_prefix(primary, root.trie, k, cur.root_account,
                                     cur.root_container, (<<>> :> root.trie),
                                     <<>>, MaxLen + 2).prefix
HandoffCallsWith(k) ==
    {i \in DOMAIN hist.calls :
        /\ hist.calls[i].where = "handoff"
        /\ \E j \in DOMAIN hist.calls[i].items : hist.calls[i].items[j].name = k}

\* C10: a misplaced record is merged into the handoff broker of one shard at
\* most, the shard of the prefix the resolver returns for its key, as a live
\* record; when the relocation is over every misplaced record has been
\* merged into one such broker, every such broker has been replicated, and
\* the last merge_items call gave the DB tombstones (deleted = 1, timestamp =
\* now) for the misplaced records and for nothing else.
C10_MisplacedRelocation ==
    (cur.misplaced # <<>> /\ hist.phase \in {"routed", "relocated"})
        => /\ \A k \in MisplacedKeys :
                 /\ Cardinality(HandoffCallsWith(k)) <= 1
                 /\ \A i \in HandoffCallsWith(k) :
                       /\ hist.calls[i].path = ShardPath(Resolved(k))
                       /\ \A j \in DOMAIN hist.calls[i].items :
                             /\ hist.calls[i].items[j].deleted = 0
                             /\ hist.calls[i].items[j].name \in MisplacedKeys
           /\ (hist.phase = "relocated" /\ pc = "candidate") =>
                 LET last == hist.calls[Len(hist.calls)]
                 IN  /\ \A k \in MisplacedKeys :
                           /\ Cardinality(HandoffCallsWith(k)) = 1
                           /\ \A i \in HandoffCallsWith(k) :
                                 /\ hist.calls[i].path \in hist.replicated
                                 /\ k \in LiveNames(primary[hist.calls[i].path].rows)
                     /\ last.where = "primary" /\ last.path = cur.path
                     /\ {last.items[j].name : j \in DOMAIN last.items} = MisplacedKeys
                     /\ \A j \in DOMAIN last.items :
                           /\ last.items[j].deleted = 1
                           /\ last.items[j].created_at = now
                           /\ last.items[j].record_type = RECORD_TYPE_OBJECT
                     /\ TombstoneNames(ParentRows) \ TombstoneNames(hist.pre)
                           = MisplacedKeys
                     /\ LiveNames(ParentRows) = LiveNames(hist.pre) \ MisplacedKeys

\* A relocation is over: the DB has its tombstones.
C10_Witness ==
    /\ hist.phase = "relocated"
    /\ pc = "candidate"
    /\ MisplacedKeys # {}
    /\ MisplacedKeys \subseteq TombstoneNames(ParentRows)
    /\ hist.replicated # {}


\* ------------------------------------------------------------------ C11
\* The DB in hand holds a live TRIE_NODE record at its first candidate: the
\* sub-trie built from the DB has a distributed branch there.
CandidateIsBranch ==
    /\ pc = "candidate"
    /\ cur.candidates # <<>>
    /\ cur.candidates[1] \in ShardNodeNames(primary[cur.path].rows)

\* C11: when the node at candidates[0] in the sub-trie built from B is itself
\* a DISTRIBUTED_BRANCH, the candidate phase only logs a warning: no handoff
\* broker is created or filled, no container is created, nothing is spawned
\* for replication, nothing is merged into B or any other DB, and the pass
\* goes on with the next local DB.
C11_BranchCandidateSkipped ==
    [][CandidateIsBranch =>
         /\ pc' = "loop"
         /\ hist'.warnings = hist.warnings + 1
         /\ hist'.calls = hist.calls
         /\ hist'.created = hist.created
         /\ hist'.replicated = hist.replicated
         /\ hist'.exc = "none"
         /\ UNCHANGED <<primary, handoff, shard_brokers, shard_cleanups, pool,
                        todo, errors, passes>>]_vars

\* A pass met a candidate that was a distributed branch and went on.
C11_Witness ==
    /\ hist.phase = "screwy"
    /\ pc = "loop"
    /\ cur.candidates # <<>>
    /\ cur.candidates[1] \in ShardNodeNames(primary[cur.path].rows)
    /\ hist.warnings >= 1


\* ------------------------------------------------------------------ C12
\* TRIE_NODE records the DB in hand has gained since the pass took it up.
NewBranchRecords ==
    ShardNodeNames(primary[cur.path].rows) \ ShardNodeNames(hist.pre)

\* C12: in any pass and for any local DB at most one candidate is processed,
\* however many entries the candidates list has: at most one split_trie
\* call, at most one new shard container and at most one new
\* distributed-branch TRIE_NODE record come from that DB in that pass.
C12_OneCandidatePerDB ==
    hist.phase # "none" =>
        /\ hist.splits <= 1
        /\ Len(hist.created) <= 1
        /\ Cardinality(NewBranchRecords) <= 1
        /\ NewBranchRecords \subseteq Range(Take(cur.candidates, 1))

\* A DB with two candidates has been split at the first of them and the
\* DB loop has gone on.
C12_Witness ==
    /\ Len(cur.candidates) >= 2
    /\ hist.phase = "merged"
    /\ hist.splits = 1
    /\ pc = "loop"
    /\ NewBranchRecords = {cur.candidates[1]}


\* ------------------------------------------------------------------ C13
\* C13: a Timeout or transport error of the internal client while a trie
\* fragment is fetched for DB B aborts the work on B only: B keeps its
\* records without new tombstones and the same pass goes on with the next
\* local DB.
C13_FetchFailureSkipsDB ==
    hist.exc = "http" =>
        /\ primary[cur.path].rows = hist.pre
        /\ pc = "loop"


\* ------------------------------------------------------------------ C14
\* create_container for the new shard of the DB in hand has failed.
C14_FailedCreate == \E i \in DOMAIN hist.created : ~hist.created[i][2]

\* C14: when create_container for the new shard fails with
\* UnexpectedResponse, the failure is logged and the split goes on as it
\* would have: the new shard DB is replicated, and once the replication has
\* been awaited the parent receives, in the same pass, the tombstones of the
\* split subtree and the new TRIE_NODE record.
C14_CreateFailureTolerated ==
    C14_FailedCreate =>
        LET N == cur.new_broker[2]
        IN  /\ hist.warnings >= 1
            /\ IF pc = "swait"
               THEN Task("replicate", N) \in pool \/ N \in hist.replicated
               ELSE /\ N \in hist.replicated
                    /\ primary[N].exists
                    /\ SplitKeys \subseteq LiveNames(primary[N].rows)
                    /\ SplitKeys \subseteq TombstoneNames(ParentRows)
                    /\ Cardinality(LiveNodeRows(ParentRows, cur.candidate)) = 1

\* A split whose create_container failed has been merged into its parent.
C14_Witness ==
    /\ C14_FailedCreate
    /\ hist.phase = "merged"
    /\ SplitKeys # {}
    /\ SplitKeys \subseteq TombstoneNames(ParentRows)
    /\ cur.new_broker[2] \in hist.replicated


\* ------------------------------------------------------------------ C15
\* C15: whatever escapes a pass is caught in run_forever: the error counter
\* goes up by exactly one, and only there; the daemon does not stop but comes
\* back to the top of its loop (pc = "idle", the only place the handler leads
\* to) and, as long as passes are left to run, does not stay there but starts
\* the next pass; and every pass starts with shard_brokers and
\* shard_cleanups freshly created and empty, whatever the failed pass left
\* in them.
C15_DaemonGoesOn ==
    /\ [][(pc = "raised" /\ pc' # "raised")
            => (errors' = errors + 1 /\ pc' = "idle")]_vars
    /\ [][errors' # errors => (pc = "raised" /\ pc' = "idle")]_vars
    /\ [][passes' # passes
            => /\ passes' = passes + 1
               /\ shard_brokers' = NoMap
               /\ shard_cleanups' = NoMap
               /\ pc' = "loop"]_vars
    /\ []<>(pc # "raised" /\ ~(pc = "idle" /\ passes < MaxPasses))

\* A pass has failed and left brokers in its maps and a handoff DB behind;
\* the next pass has started with empty maps.
C15_Witness ==
    /\ errors >= 1
    /\ passes >= 2
    /\ pc = "loop"
    /\ todo = {p \in AllPaths : primary[p].exists}
    /\ \E p \in AllPaths : handoff[p].exists
    /\ shard_brokers = NoMap
    /\ shard_cleanups = NoMap


\* ------------------------------------------------------------------ C16
\* The local DB the main task takes up in this step.
TakenUp == CHOOSE p \in todo : p \notin todo'

\* C16: a local container DB takes part in a pass exactly if its metadata has
\* X-Container-Sysmeta-Sharding equal to On or has
\* X-Container-Sysmeta-Shard-Account set: such a DB is scanned into the
\* counting trie; for any other DB the pass lists no objects, builds no
\* candidates, merges, replicates and creates nothing, and goes on with the
\* next DB.
C16_OnlyShardedTakePart ==
    [][(pc = "loop" /\ todo' # todo)
         => LET meta == primary[TakenUp].metadata
                takes_part == \/ meta.sharding # <<>> /\ meta.sharding[1] = "On"
                              \/ meta.shard_account # <<>>
            IN  IF takes_part
                THEN /\ hist'.phase = "scanned"
                     /\ cur'.path = TakenUp
                     /\ pc' \in {"misplaced", "candidate"}
                ELSE /\ hist'.phase = "none"
                     /\ hist'.listed = <<>>
                     /\ hist'.calls = <<>>
                     /\ cur'.candidates = <<>>
                     /\ cur'.misplaced = <<>>
                     /\ pc' = "loop"
                     /\ UNCHANGED <<primary, handoff, shard_brokers,
                                    shard_cleanups, pool, now, errors>>]_vars


\* ------------------------------------------------------------------ C17
\* The misplaced phase of the DB in hand is over and the split phase begins.
C17_AfterRelocation == pc = "candidate" /\ hist.phase = "relocated"

\* Every broker held in shard_brokers still has its local (handoff) DB.
C17_HeldBrokersExist ==
    \A c \in DOMAIN shard_brokers.map : handoff[shard_brokers.map[c][2]].exists

\* C17 as stated: when the misplaced phase of a DB completes, both maps are
\* empty maps before the split phase uses them, and at every point of a pass
\* no broker held in shard_brokers has had its local DB deleted.
C17_AsStated ==
    /\ C17_AfterRelocation => (shard_brokers = NoMap /\ shard_cleanups = NoMap)
    /\ pc # "idle" => C17_HeldBrokersExist

\* C17, amended: the same, with the second part for every point of a pass up
\* to the end of its loop over the local DBs, that is wherever a fill can
\* still follow; the cleanup after the loop is left out.
C17_ResetBeforeSplit ==
    /\ C17_AfterRelocation => (shard_brokers = NoMap /\ shard_cleanups = NoMap)
    /\ pc \notin {"idle", "ewait"} => C17_HeldBrokersExist

\* The split phase begins after a relocation whose handoff DB has been
\* replicated and deleted, with both maps empty.
C17_Witness ==
    /\ C17_AfterRelocation
    /\ shard_brokers = NoMap
    /\ shard_cleanups = NoMap
    /\ \E i \in DOMAIN hist.calls :
          /\ hist.calls[i].where = "handoff"
          /\ hist.calls[i].path \in hist.replicated
          /\ ~handoff[hist.calls[i].path].exists


\* ------------------------------------------------------------------ C18
\* A step of a pool task: a task leaves the pool and none is spawned.
WorkerStep == pool' \subseteq pool /\ pool' # pool

\* C18: shard_brokers and shard_cleanups are written by the main task only:
\* no step of a replication or cleanup task on the pool adds, removes or
\* replaces an entry of either map.
C18_MainTaskOwnsMaps ==
    [][WorkerStep => UNCHANGED <<shard_brokers, shard_cleanups>>]_vars


\* ------------------------------------------------------------------ C19
\* Two requests to the factory since the last reset, the earlier one
\* answered with a broker, both for the same shard container.
C19_Repeated(i, j) ==
    /\ i < j
    /\ hist.calls[i].path = hist.calls[j].path
    /\ hist.calls[i].where = "ok"

\* C19: between two resets of shard_brokers, repeated requests to the
\* factory for the same shard container return the same broker with the same
\* (part, node_id); the later request needs no ring lookup or handoff search
\* (it is answered even when no handoff device is at hand) and no
\* initialize, so the fills of both requests are in one DB.
C19_BrokerMemoized ==
    \A i, j \in DOMAIN hist.calls :
        C19_Repeated(i, j) =>
            /\ hist.calls[j].where = "ok"
            /\ hist.calls[j].triple = hist.calls[i].triple
            /\ shard_brokers.map[hist.calls[i].path[2]] = hist.calls[i].triple
            /\ LET db == handoff[hist.calls[i].triple[2]]
               IN  /\ db.exists
                   /\ \A n \in {i, j} : \A x \in Range(hist.calls[n].items) :
                         \E r \in db.rows : r.name = x.name

\* A second fill of one shard container with another object, asked for
\* when no handoff device could be found, has been answered.
C19_Witness ==
    \E i, j \in DOMAIN hist.calls :
        /\ C19_Repeated(i, j)
        /\ ~hist.calls[j].avail
        /\ hist.calls[j].where = "ok"
        /\ hist.calls[i].items # hist.calls[j].items
        /\ hist.calls[j].path # ROOT_PATH


\* ------------------------------------------------------------------ C20
\* db, at path p, carries the three shard keys with the root account, the
\* root container and the prefix of the shard at p, stamped together.
C20_Stamped(db, p) ==
    /\ db.metadata.shard_account # <<>>
    /\ LET prefix == p[2][2]
           ts == db.metadata.shard_account[2]
       IN  /\ prefix # <<>>
           /\ p = get_container_shard_path(ROOT_ACCOUNT, ROOT_CONTAINER, prefix)
           /\ db.metadata.shard_account = <<ROOT_ACCOUNT, ts>>
           /\ db.metadata.shard_container = <<ROOT_CONTAINER, ts>>
           /\ db.metadata.shard_prefix = <<prefix, ts>>

\* C20: every shard DB the sharder creates carries the three keys
\* X-Container-Sysmeta-Shard-Account, -Container and -Prefix with the values
\* (root_account, root_container, prefix) of the shard: the handoff DB from
\* the moment the factory has filled it, the cluster's copy once the handoff
\* DB has been replicated to it.  And once Shard-Account is set on a handoff
\* DB, no later fill changes the three keys or their timestamps.
C20_ShardMetadata ==
    /\ [](\A p \in AllPaths \ {ROOT_PATH} :
            /\ handoff[p].exists => C20_Stamped(handoff[p], p)
            /\ (primary[p].exists /\ Task("replicate", p) \notin pool)
                  => C20_Stamped(primary[p], p))
    /\ [][\A p \in AllPaths :
            (handoff[p].exists /\ handoff[p].metadata.shard_account # <<>>
             /\ handoff'[p].exists)
                => handoff'[p].metadata = handoff[p].metadata]_vars

\* A handoff DB left by a failed pass has been filled again by a later
\* pass and still carries the timestamps of its first stamping.
C20_Witness ==
    /\ pc = "paging"
    /\ passes >= 2
    /\ hist.phase = "split"
    /\ handoff[cur.new_broker[2]].exists
    /\ handoff[cur.new_broker[2]].metadata.shard_account # <<>>
    /\ handoff[cur.new_broker[2]].metadata.shard_account[2] < now

\* ------------------------------------------------------------------ C21
\* hops of the resolutions of one phase: <<key, branch keys followed, prefix>>.
HopsOf(i) == hist.hops[i][2]
\* C21: shard path resolution terminates.  For every key of a phase the
\* recursion never runs out of depth; each branch key it follows, fetched
\* or cached, is a prefix of the key and strictly longer than the one
\* before, so a key of length n is resolved in at most n steps, also when a
\* fragment is empty or comes from the cache.
C21_ResolverTerminates ==
    /\ hist.exc # "depth"
    /\ \A i \in DOMAIN hist.hops :
          /\ Len(HopsOf(i)) <= Len(hist.hops[i][1])
          /\ \A j \in DOMAIN HopsOf(i) :
                /\ startswith(hist.hops[i][1], HopsOf(i)[j])
                /\ j > 1 => Len(HopsOf(i)[j]) > Len(HopsOf(i)[j - 1])

\* Two keys of one phase: the first resolved through two fetched levels, the
\* leaf-most fragment being empty, the second through the cache alone.
C21_Witness ==
    /\ hist.phase = "routed"
    /\ hist.exc = "none"
    /\ Len(hist.hops) = 2
    /\ Len(HopsOf(1)) = 2
    /\ HopsOf(2) # <<>>
    /\ Len(hist.fetched) = 2
    /\ primary[get_container_shard_path(ROOT_ACCOUNT, ROOT_CONTAINER,
                                         HopsOf(1)[2])].rows = {}


\* ------------------------------------------------------------------ C22
\* The shard whose fragment was looked up last for a key: that of the last
\* branch followed, the root when none was.
OwnerOf(i) == IF HopsOf(i) = <<>> THEN <<>> ELSE HopsOf(i)[Len(HopsOf(i))]
ResolvedAt(i) == i < Len(hist.hops) \/ hist.exc = "none"

\* C22: for every key the resolver returns the prefix of the leaf-most shard
\* that owns the key: the returned value is a prefix of the key, no
\* distributed branch of the fragment looked up last is crossed by the key,
\* and no branch key is fetched twice in one phase.
C22_ResolverReturnsOwner ==
    /\ \A i \in DOMAIN hist.hops :
          ResolvedAt(i) =>
            /\ startswith(hist.hops[i][1], hist.hops[i][3])
            /\ LET ac == get_container_shard_path(ROOT_ACCOUNT, ROOT_CONTAINER,
                                                  OwnerOf(i))
               IN  Crossed(_get_shard_trie(primary, ac[1], ac[2]).trie,
                           hist.hops[i][1]) = {}
    /\ \A i, j \in DOMAIN hist.fetched :
          i # j => hist.fetched[i] # hist.fetched[j]


\* ------------------------------------------------------------------ C23
Registered == {shard_cleanups.map[c] : c \in DOMAIN shard_cleanups.map}

\* C23: deferred cleanup.  While shard_cleanups is a map and the pass is
\* under way a registered broker is on disk still (delete_db registered it
\* and deleted nothing), and once the pass is over, whichever way it ended,
\* no broker is left behind registered and undeleted.
C23_DeferredCleanup ==
    /\ pc # "idle" => \A path \in Registered : handoff[path].exists
    /\ pc = "idle" => \A path \in Registered : ~handoff[path].exists


\* ------------------------------------------------------------------ C24
KeysUnder(prefix) == {k \in Names \cup Prefixes : startswith(k, prefix)}
SameDataNode(k) ==
    (lookup(hist.before, k).kind = "node"
       /\ lookup(hist.before, k).node.flag = DATA)
      => lookup(cur.split_trie, k) = lookup(hist.before, k)

SubtreeSize(ct, p) ==
    Cardinality({i \in DOMAIN ct.log : startswith(ct.log[i][1], p)})

RECURSIVE Replay(_, _)
Replay(ct, log) ==
    IF log = <<>> THEN ct
    ELSE Replay(ct_add(ct, Head(log)[1], Head(log)[2],
                       AddItem(Head(log)[1], Head(log)[2])),
                Tail(log))
\* The log with the adds at i and i + 1 exchanged.
Swapped(log, i) ==
    [j \in DOMAIN log |-> IF j = i THEN log[i + 1]
                          ELSE IF j = i + 1 THEN log[i] ELSE log[j]]
MisplacedSet(ct) == Range(ct.misplaced)

\* C26: the set misplaced depends on the adds made, not on their order:
\* exchanging any two neighbouring adds of the sequence made so far (every
\* permutation is a chain of such exchanges, and every sequence is reached)
\* yields the same set of (key, distributed_ancestor_key, record) entries.
C26_MisplacedOrderFree ==
    LET ct == cur.counting_trie
        empty == CountingTrie(ct.prefix, ct.group_count)
    IN  /\ MisplacedSet(Replay(empty, ct.log)) = MisplacedSet(ct)
        /\ \A i \in 1..(Len(ct.log) - 1) :
              MisplacedSet(Replay(empty, Swapped(ct.log, i))) = MisplacedSet(ct)

\* A key found misplaced under two nested branches, one registered before
\* the key was added and one after it.
C26_Witness ==
    LET ct == cur.counting_trie
    IN  \E i, j, k \in DOMAIN ct.log :
          /\ i < j /\ j < k
          /\ ct.log[i][2] /\ ~ct.log[j][2] /\ ct.log[k][2]
          /\ Under(ct.log[j][1], ct.log[i][1])
          /\ Under(ct.log[j][1], ct.log[k][1])
          /\ ct.log[i][1] # ct.log[k][1]
          /\ Cardinality({m \in MisplacedSet(ct) : m[1] = ct.log[j][1]}) = 2


\* ------------------------------------------------------------------ C27
\* The scanned DB's listings, and the adds the counting trie received.
ListedObjects == LiveNames(hist.pre)
ListedNodes == ShardNodeNames(hist.pre)
AddsOf(key, distributed) ==
    {i \in DOMAIN hist.listed : hist.listed[i] = <<key, distributed>>}
\* The adds of a node that the loop before the listing made (non-root only).
UpFront(d) == IF cur.is_root THEN 0 ELSE 1

\* C27: interleaved ingestion order.  For every listed object o and every
\* distributed node d of the DB that is a prefix of o, add(d, distributed)
\* is received before add(o); a distributed node that is a prefix of no
\* listed object receives no add from the interleave loop.
C27_InterleavedOrder ==
    hist.phase = "scanned" =>
      /\ \A o \in ListedObjects : \A d \in ListedNodes :
            startswith(o, d) =>
              \A j \in AddsOf(o, FALSE) : \E i \in AddsOf(d, TRUE) : i < j
      /\ \A d \in ListedNodes :
            (\A o \in ListedObjects : ~startswith(o, d))
              => Cardinality(AddsOf(d, TRUE)) = UpFront(d)

\* The scan of a root that holds an object under two nested branches, an
\* object under no branch and a branch that is a prefix of no object.
C27_Witness ==
    /\ hist.phase = "scanned"
    /\ cur.is_root
    /\ \E o \in ListedObjects : \E d, e \in ListedNodes :
          d # e /\ startswith(o, d) /\ startswith(o, e)
    /\ \E o \in ListedObjects : \A d \in ListedNodes : ~startswith(o, d)
    /\ \E d \in ListedNodes : \A o \in ListedObjects : ~startswith(o, d)

\* ------------------------------------------------------------------ C28
ListedOnce ==
    /\ hist.listings = (Cardinality(ListedObjects) \div CONTAINER_LISTING_LIMIT) + 1
    /\ \A o \in ListedObjects : Cardinality(AddsOf(o, FALSE)) = 1
    /\ \A i \in DOMAIN hist.listed :
          IF hist.listed[i][2] THEN hist.listed[i][1] \in ListedNodes
          ELSE hist.listed[i][1] \in ListedObjects

\* C28: the scan of a DB of n objects ends after floor(n / LISTING_LIMIT) + 1
\* listing calls, having added every listed object exactly once and every
\* distributed node at most once, for root and non-root DBs alike.
C28_ScanAddsOnce ==
    hist.phase = "scanned" =>
      /\ ListedOnce
      /\ \A d \in ListedNodes : Cardinality(AddsOf(d, TRUE)) <= 1


\* ------------------------------------------------------------------ C29
\* The items of the input in input order, as <<name, own timestamp, size,
\* content_type, etag, is a distributed-branch item>>; a row is well formed
\* when it has the fields of an object row or of a shard-node row.
WellFormed(v) == Len(v) \in {2, 3} \/ Len(v) >= 5
InputItems(input) ==
    IF input.kind = "trie"
    THEN LET ns == get_important_nodes(input.trie)
         IN  [i \in 1..Len(ns) |->
                <<ns[i].key, ns[i].timestamp, ns[i].data.size,
                  ns[i].data.content_type, ns[i].data.etag,
                  ns[i].flag = DISTRIBUTED_BRANCH>>]
    ELSE LET ok == SelectSeq(input.items, LAMBDA it : WellFormed(it.row))
         IN  [i \in 1..Len(ok) |->
                IF Len(ok[i].row) >= 5
                THEN <<ok[i].row[1], ok[i].row[2], ok[i].row[3], ok[i].row[4],
                       ok[i].row[5], FALSE>>
                ELSE <<ok[i].row[1], ok[i].row[2], 0, "", "", TRUE>>]
ExpectedRecord(it, args) ==
    Record(it[1], IF args.timestamp # 0 THEN args.timestamp ELSE it[2],
           IF it[6] THEN 0 ELSE it[3], IF it[6] THEN "" ELSE it[4],
           IF it[6] THEN "" ELSE it[5], IF args.delete THEN 1 ELSE 0,
           args.policy_index,
           IF it[6] THEN RECORD_TYPE_TRIE_NODE ELSE RECORD_TYPE_OBJECT)

\* C29: record generation.  For any input and any arguments the result is
\* one record per well-formed item in input order, distributed-branch items
\* left out exactly when filter_dist is set, each with deleted, created_at,
\* the container's storage_policy_index and the record type of its item; a
\* malformed row is skipped with a warning and stops nothing.
C29_RecordGeneration ==
    hist.phase = "generated" =>
      LET args == cur.args
          kept == SelectSeq(InputItems(args.input),
                            LAMBDA it : ~(args.filter_dist /\ it[6]))
      IN  /\ ~hist.gen.raised
          /\ hist.gen.objs = [i \in 1..Len(kept) |-> ExpectedRecord(kept[i], args)]
          /\ args.input.kind = "list" =>
                hist.gen.warnings
                  = Len(SelectSeq(args.input.items,
                                  LAMBDA it : ~WellFormed(it.row)))


\* ------------------------------------------------------------------ C30
\* C30: broker identity.  Whatever was requested before in the pass, the
\* broker the factory hands back for a requested (account, container) is
\* the handoff DB of exactly that account and container, and the records of
\* the request are merged into no other one.
C30_BrokerIdentity ==
    \A i \in DOMAIN hist.calls :
      hist.calls[i].where = "ok" =>
        /\ hist.calls[i].triple[2] = hist.calls[i].path
        /\ \A r \in Range(hist.calls[i].items) :
              \A p \in DOMAIN handoff :
                (handoff[p].exists /\ r \in handoff[p].rows)
                  => p[1] = hist.calls[i].path[1]

====
